---------------------------- MODULE Spec2Model ----------------------------
(***************************************************************************)
(* The tick-replay loop of prosperity2bt (src/prosperity2bt/runner.py):    *)
(* run_backtest and the functions it calls (prepare_state,                 *)
(* create_activity_logs, enforce_limits, match_orders, match_order,        *)
(* match_buy_order, match_sell_order), over a day built the way            *)
(* create_backtest_data (src/prosperity2bt/data.py) builds it.             *)
(*                                                                         *)
(* A Python dict is a function with a finite DOMAIN; where the code        *)
(* relies on a dict's insertion order (data.trades[timestamp].items())     *)
(* the dict is a sequence of [product, trades] entries.  A text is the     *)
(* sequence of the pieces it is concatenated from; NL is the newline.      *)
(* Prices with a fractional part (mid_price, the activity log's P&L) are   *)
(* kept in halves.                                                         *)
(***************************************************************************)
EXTENDS Integers, Sequences, FiniteSets, TLC

(***************************************************************************)
(* Bounds of the model.                                                    *)
(***************************************************************************)
\* number of distinct timestamps in the day's price rows
NumTicks == 3

\* number of days whose results are merged
NumDays == 3

(***************************************************************************)
(* Program constants.                                                      *)
(***************************************************************************)
\* data.py LIMITS
LIMITS ==
    [p \in {"AMETHYSTS", "STARFRUIT", "ORCHIDS", "CHOCOLATE", "STRAWBERRIES",
            "ROSES", "GIFT_BASKET", "COCONUT", "COCONUT_COUPON"} |->
        CASE p = "AMETHYSTS" -> 20
          [] p = "STARFRUIT" -> 20
          [] p = "ORCHIDS" -> 100
          [] p = "CHOCOLATE" -> 250
          [] p = "STRAWBERRIES" -> 350
          [] p = "ROSES" -> 60
          [] p = "GIFT_BASKET" -> 60
          [] p = "COCONUT" -> 300
          [] p = "COCONUT_COUPON" -> 600]

\* the identity the strategy's side of a fill is tagged with
SUBMISSION == "SUBMISSION"

NL == "\n"

(***************************************************************************)
(* Python built-ins.                                                       *)
(***************************************************************************)
\* dict.get(key, default)
Get(d, k, default) == IF k \in DOMAIN d THEN d[k] ELSE default

\* d[k] = v on a dict (adds the key when it is new)
Put(d, k, v) == [x \in DOMAIN d \cup {k} |-> IF x = k THEN v ELSE d[x]]

\* d.pop(k) for a key that is present
Pop(d, k) == [x \in DOMAIN d \ {k} |-> d[x]]

Min(a, b) == IF a <= b THEN a ELSE b

Abs(a) == IF a < 0 THEN -a ELSE a

Range(s) == {s[i] : i \in 1..Len(s)}

\* str comparison, on the symbols of the model: the rank of a symbol in
\* lexicographic order
SymbolRank ==
    [p \in {"AMETHYSTS", "CHOCOLATE", "COCONUT", "COCONUT_COUPON", "GIFT_BASKET",
            "ORCHIDS", "ROSES", "STARFRUIT", "STRAWBERRIES"} |->
        CASE p = "AMETHYSTS" -> 1
          [] p = "CHOCOLATE" -> 2
          [] p = "COCONUT" -> 3
          [] p = "COCONUT_COUPON" -> 4
          [] p = "GIFT_BASKET" -> 5
          [] p = "ORCHIDS" -> 6
          [] p = "ROSES" -> 7
          [] p = "STARFRUIT" -> 8
          [] p = "STRAWBERRIES" -> 9]

RECURSIVE SortedBy(_, _)
\* sorted(S, key=rank): ascending
SortedBy(S, rank) ==
    IF S = {} THEN <<>>
    ELSE LET m == CHOOSE x \in S : \A y \in S : rank[x] <= rank[y]
         IN  <<m>> \o SortedBy(S \ {m}, rank)

\* sorted(S) on integers, ascending
SortedAsc(S) == SortedBy(S, [x \in S |-> x])

\* sorted(S, reverse=True) on integers
SortedDesc(S) == SortedBy(S, [x \in S |-> -x])

RECURSIVE SumSeq(_)
SumSeq(s) == IF s = <<>> THEN 0 ELSE Head(s) + SumSeq(Tail(s))

RECURSIVE Join(_, _)
\* sep.join(lines): every line is a sequence of pieces
Join(lines, sep) ==
    IF lines = <<>> THEN <<>>
    ELSE IF Len(lines) = 1 THEN lines[1]
    ELSE lines[1] \o <<sep>> \o Join(Tail(lines), sep)

(***************************************************************************)
(* The day's input: the price rows and the trades as read_day_data hands   *)
(* them to create_backtest_data, in file order.  Odd and even ticks carry  *)
(* different books, so that a book left over from the tick before would    *)
(* show.                                                                   *)
(***************************************************************************)
\* the timestamp of the i-th tick of the day (the files step by 100)
TickTimestamp(i) == (i - 1) * 100

\* PriceRow(day, timestamp, product, bid_prices, bid_volumes, ask_prices,
\* ask_volumes, mid_price, profit_loss); mid_price2 is twice mid_price
PriceRow(ts, product, bp, bv, ap, av, mid2) ==
    [timestamp |-> ts, product |-> product, bid_prices |-> bp, bid_volumes |-> bv,
     ask_prices |-> ap, ask_volumes |-> av, mid_price2 |-> mid2]

\* buyer and seller in each other's place
TradeSidesSwapped(symbol, price, quantity, buyer, seller, ts) ==
    [symbol |-> symbol, price |-> price, quantity |-> quantity,
     buyer |-> seller, seller |-> buyer, timestamp |-> ts]

\* Trade(symbol, price, quantity, buyer, seller, timestamp)
Trade(symbol, price, quantity, buyer, seller, ts) ==
    [symbol |-> symbol, price |-> price, quantity |-> quantity,
     buyer |-> buyer, seller |-> seller, timestamp |-> ts]

\* the price rows of tick i, STARFRUIT's row before AMETHYSTS'
TickPriceRows(i) ==
    LET ts == TickTimestamp(i) IN
    IF i % 2 = 1
    THEN << PriceRow(ts, "STARFRUIT", <<8, 7>>, <<5, 5>>, <<10, 11, 13>>, <<5, 5, 15>>, 18),
            PriceRow(ts, "AMETHYSTS", <<8>>, <<25>>, <<10>>, <<25>>, 18) >>
    ELSE << PriceRow(ts, "STARFRUIT", <<9, 8, 6>>, <<6, 4, 15>>, <<11, 12>>, <<8, 4>>, 20),
            PriceRow(ts, "AMETHYSTS", <<8>>, <<25>>, <<10>>, <<25>>, 18) >>

\* the trades of tick i, in file order
TickTrades(i) ==
    LET ts == TickTimestamp(i) IN
    IF i % 2 = 1
    THEN << Trade("STARFRUIT", 9, 3, "Bob", "Al", ts),
            Trade("AMETHYSTS", 9, 4, "", "", ts),
            Trade("STARFRUIT", 12, 10, "", "", ts) >>
    ELSE << Trade("STARFRUIT", 10, 6, "Cy", "Di", ts),
            Trade("ORCHIDS", 50, 2, "", "", ts) >>

RECURSIVE PriceRowsTo(_)
\* the rows of the prices file up to tick n
PriceRowsTo(n) == IF n = 0 THEN <<>> ELSE PriceRowsTo(n - 1) \o TickPriceRows(n)

RECURSIVE TradesTo(_)
\* the rows of the trades file up to tick n
TradesTo(n) == IF n = 0 THEN <<>> ELSE TradesTo(n - 1) \o TickTrades(n)

FilePriceRows == PriceRowsTo(NumTicks)

FileTrades == TradesTo(NumTicks)

(***************************************************************************)
(* create_backtest_data                                                    *)
(***************************************************************************)
\* prices_by_timestamp[row.timestamp][row.product] = row: the last row of a
\* (timestamp, product) stays
PricesByTimestamp(rows) ==
    LET Last(ts, p) ==
            CHOOSE i \in 1..Len(rows) :
                /\ rows[i].timestamp = ts /\ rows[i].product = p
                /\ \A j \in 1..Len(rows) :
                     (rows[j].timestamp = ts /\ rows[j].product = p) => j <= i
    IN  [ts \in {rows[i].timestamp : i \in 1..Len(rows)} |->
            [p \in {rows[i].product : i \in {k \in 1..Len(rows) : rows[k].timestamp = ts}} |->
                rows[Last(ts, p)]]]

RECURSIVE GroupBySymbol(_, _)
\* trades_by_timestamp[ts][trade.symbol].append(trade), for the trades of
\* one timestamp: a dict in insertion order, an entry per symbol
GroupBySymbol(trades, acc) ==
    IF trades = <<>> THEN acc
    ELSE LET t == Head(trades)
             at == {i \in 1..Len(acc) : acc[i].product = t.symbol}
         IN  IF at = {}
             THEN GroupBySymbol(Tail(trades),
                                Append(acc, [product |-> t.symbol, trades |-> <<t>>]))
             ELSE LET i == CHOOSE k \in at : TRUE
                  IN  GroupBySymbol(Tail(trades),
                                    [acc EXCEPT ![i].trades = Append(@, t)])

TradesByTimestamp(trades) ==
    [ts \in {trades[i].timestamp : i \in 1..Len(trades)} |->
        GroupBySymbol(SelectSeq(trades, LAMBDA t : t.timestamp = ts), <<>>)]

\* the products, last symbol first
SortedProductsDescending(rows) ==
    SortedBy({rows[i].product : i \in 1..Len(rows)},
             [x \in DOMAIN SymbolRank |-> -SymbolRank[x]])

\* products = sorted(set(row.product for row in prices))
SortedProducts(rows) == SortedBy({rows[i].product : i \in 1..Len(rows)}, SymbolRank)

\* data.products and data.prices never change during a run
DataProducts == SortedProducts(FilePriceRows)

DataPrices == PricesByTimestamp(FilePriceRows)

\* sorted_timestamps = sorted(data.prices.keys())
SortedTimestamps == SortedAsc(DOMAIN DataPrices)

(***************************************************************************)
(* The program's state.                                                    *)
(***************************************************************************)
VARIABLES
    pc,                      \* where run_backtest is
    disable_trades_matching, \* run_backtest's argument
    tick,                    \* number of timestamps the loop has finished
    timestamp,               \* state.timestamp
    order_depths,            \* state.order_depths
    position,                \* state.position
    own_trades,              \* state.own_trades
    state_market_trades,     \* state.market_trades
    profit_loss,             \* data.profit_loss
    data_trades,             \* data.trades
    orders,                  \* what trader.run returned, as the engine holds it
    sandbox_logs,            \* result.sandbox_logs
    activity_logs,           \* result.activity_logs
    result_trades,           \* result.trades
    market_trades,           \* match_orders' market_trades
    product_i,               \* match_orders: index of product in data.products
    order_i,                 \* match_orders: index of order in orders[product]
    new_trades,              \* match_orders' new_trades
    order,                   \* the order match_order was called with
    trades,                  \* match_buy_order's / match_sell_order's trades
    price_matches,           \* the part of price_matches still to visit
    market_trade_i,          \* index of market_trade in market_trades
    \* History variables: what the properties below are stated with.  No
    \* action reads them to decide what the program does.
    requested,               \* orders as trader.run returned them
    h_depth,                 \* the OrderDepth of order.symbol when match_order was called
    h_trades,                \* per entry of trades: where the fill came from
    h_new_trades,            \* the same for new_trades
    h_result_trades,         \* the same for result.trades
    \* The merging of the days' results (__main__.py, main.py).
    program,                 \* whose merge_results runs: "__main__" or "main"
    merge_profit_loss,       \* args.merge_pnl
    merge_timestamps,        \* not args.original_timestamps
    results,                 \* the days' results, as they are in memory
    merged_results,          \* reduce(merge_results, results) as far as it is
    grouped_results,         \* the same merges grouped from the right
    results0,                \* history variable: results as run_backtest returned them
    \* The strategy's carry-over string.
    trader_data,             \* run_backtest's trader_data
    state_traderData,        \* state.traderData
    \* The caller of run_backtest, for a day that is run a second time.
    strategy,                \* what trader.run does at each tick, <<>> when it is free
    run_no,                  \* 1 in the first run of the day, 2 in the second
    first_result             \* the result the first run returned

vars == << pc, disable_trades_matching, tick, timestamp, order_depths, position,
           own_trades, state_market_trades, profit_loss, data_trades, orders,
           sandbox_logs, activity_logs, result_trades, market_trades, product_i,
           order_i, new_trades, order, trades, price_matches, market_trade_i,
           requested, h_depth, h_trades, h_new_trades, h_result_trades,
           program, merge_profit_loss, merge_timestamps, results, merged_results,
           grouped_results, results0, trader_data, state_traderData, strategy, run_no,
           first_result >>

\* the carry-over string in its two places
carry_vars == << trader_data, state_traderData >>

\* the variables of the caller of run_backtest
caller_vars == << strategy, run_no, first_result >>

\* the variables of the merging of the days' results
merge_vars == << program, merge_profit_loss, merge_timestamps, results, merged_results,
                 grouped_results, results0 >>

\* the variables of match_orders and of the functions it calls
matching_vars == << market_trades, product_i, order_i, new_trades, order, trades,
                    price_matches, market_trade_i >>

history_vars == << h_depth, h_trades, h_new_trades, h_result_trades >>

\* where an entry of the trade log came from: the tick, the key of the orders
\* dict (the product of the trade, for a market trade), the place of the
\* order in its list, "book" | "trade" | "market", and the place of the
\* market trade in its list
Origin(ts, product, o_i, kind, at) ==
    [timestamp |-> ts, product |-> product, order_i |-> o_i, kind |-> kind, at |-> at]

\* Order(symbol, price, quantity)
Order(symbol, price, quantity) ==
    [symbol |-> symbol, price |-> price, quantity |-> quantity]

NoOrder == Order("", 0, 0)

(***************************************************************************)
(* What the strategy may return.  An order is listed under a key of the    *)
(* dict and names its symbol itself; the two need not agree.               *)
(***************************************************************************)
OrderPrices == {7, 9, 12}

OrderQuantities == {-20, -4, 0, 8, 20}

\* a dict with one key
OneKey(key, product_orders) == [k \in {key} |-> product_orders]

\* a dict with the keys of both
Both(d, e) == [k \in DOMAIN d \cup DOMAIN e |-> IF k \in DOMAIN d THEN d[k] ELSE e[k]]

\* one order, for STARFRUIT and listed under it
SingleOrders ==
    {OneKey("STARFRUIT", <<Order("STARFRUIT", p, q)>>) :
        p \in OrderPrices, q \in OrderQuantities}

\* two orders for STARFRUIT, listed under it
PairedOrders ==
    {OneKey("STARFRUIT", <<o1, o2>>) :
        o1 \in {Order("STARFRUIT", 12, 8), Order("STARFRUIT", 12, -4)},
        o2 \in {Order("STARFRUIT", 12, 8), Order("STARFRUIT", 12, 20),
                Order("STARFRUIT", 12, -8), Order("STARFRUIT", 9, -8)}}

\* orders under both keys; one of the lists under AMETHYSTS holds an order
\* for STARFRUIT
TwoKeyOrders ==
    {Both(a, s) :
        a \in {OneKey("AMETHYSTS", <<>>),
               OneKey("AMETHYSTS", <<Order("AMETHYSTS", 12, 20)>>),
               OneKey("AMETHYSTS", <<Order("AMETHYSTS", 9, -20), Order("AMETHYSTS", 9, -4)>>),
               OneKey("AMETHYSTS", <<Order("STARFRUIT", 12, 20)>>)},
        s \in {<<>>,
               OneKey("STARFRUIT", <<Order("STARFRUIT", 12, 20)>>),
               OneKey("STARFRUIT", <<Order("STARFRUIT", 12, 20), Order("STARFRUIT", 12, 8)>>)}}

TraderReturns == {<<>>} \cup SingleOrders \cup PairedOrders \cup TwoKeyOrders

\* the timestamps at which the strategy may return any of TraderReturns
FullMenuTimestamps == {TickTimestamp(1), TickTimestamp(2)}

\* what it may return at the timestamps after them: nothing, or one buy
LateReturns == {<<>>, OneKey("STARFRUIT", <<Order("STARFRUIT", 12, 8)>>)}

\* what the strategy may return at a timestamp
TraderReturnsAt(ts) == IF ts \in FullMenuTimestamps THEN TraderReturns ELSE LateReturns

(***************************************************************************)
(* run_backtest up to its loop.                                            *)
(***************************************************************************)
(***************************************************************************)
(* The results of the days, as merge_results gets them.                    *)
(***************************************************************************)
\* BacktestResult(round_num, day_num, sandbox_logs, activity_logs, trades)
BacktestResult(round_num, day_num, s_logs, a_logs, t_rows) ==
    [round_num |-> round_num, day_num |-> day_num, sandbox_logs |-> s_logs,
     activity_logs |-> a_logs, trades |-> t_rows]

\* a piece of a lambda_log: the text "[[n," that the visualizer's logger
\* starts a tick's output with
Mark(n) == [kind |-> "mark", n |-> n]

\* a piece of a lambda_log: any other text, told apart by a number
Text(n) == [kind |-> "text", n |-> n]

\* SandboxLogRow(timestamp, sandbox_log, lambda_log)
SandboxLogRow(ts, sandbox_log, lambda_log) ==
    [timestamp |-> ts, sandbox_log |-> sandbox_log, lambda_log |-> lambda_log]

\* ActivityLogRow(columns): columns[0] the day, columns[1] the timestamp,
\* columns[2] the product, columns[-1] the profit and loss (in halves)
DayActivityLogRow(day, ts, product, pnl2) ==
    [day |-> day, timestamp |-> ts, product |-> product, profit_loss2 |-> pnl2]

\* a day of round 1: two ticks, two products, a strategy that logs
FirstDay ==
    BacktestResult(1, 0,
        << SandboxLogRow(0, <<>>, <<Mark(0), Text(1)>>),
           SandboxLogRow(100, <<>>, <<Mark(100), Text(2), Mark(200)>>) >>,
        << DayActivityLogRow(0, 0, "AMETHYSTS", 0), DayActivityLogRow(0, 0, "STARFRUIT", 0),
           DayActivityLogRow(0, 100, "AMETHYSTS", 4),
           DayActivityLogRow(0, 100, "STARFRUIT", -6) >>,
        << Trade("STARFRUIT", 10, 5, SUBMISSION, "", 0),
           Trade("STARFRUIT", 10, 6, "Cy", "Di", 100) >>)

\* a day of round 2: two ticks, another product
OrchidsDay ==
    BacktestResult(2, 1,
        << SandboxLogRow(0, <<>>, <<Mark(0)>>),
           SandboxLogRow(100, <<"violation">>, <<Mark(100), Mark(300)>>) >>,
        << DayActivityLogRow(1, 0, "ORCHIDS", 0), DayActivityLogRow(1, 100, "ORCHIDS", 10) >>,
        << Trade("ORCHIDS", 50, 2, "", "", 100) >>)

\* a day of one tick and no trades
ShortDay ==
    BacktestResult(1, 2,
        << SandboxLogRow(0, <<>>, <<Mark(0), Mark(200)>>) >>,
        << DayActivityLogRow(2, 0, "AMETHYSTS", 2), DayActivityLogRow(2, 0, "STARFRUIT", 0) >>,
        <<>>)

\* a day of three ticks with a strategy that logs nothing
QuietDay ==
    BacktestResult(1, -1,
        << SandboxLogRow(0, <<>>, <<>>), SandboxLogRow(100, <<>>, <<>>),
           SandboxLogRow(200, <<>>, <<>>) >>,
        << DayActivityLogRow(-1, 0, "AMETHYSTS", 0), DayActivityLogRow(-1, 0, "STARFRUIT", 0),
           DayActivityLogRow(-1, 100, "AMETHYSTS", 0),
           DayActivityLogRow(-1, 100, "STARFRUIT", 3),
           DayActivityLogRow(-1, 200, "AMETHYSTS", -8),
           DayActivityLogRow(-1, 200, "STARFRUIT", 5) >>,
        << Trade("AMETHYSTS", 9, 4, "", SUBMISSION, 100),
           Trade("STARFRUIT", 12, 10, "", "", 200) >>)

\* the results a day's run_backtest may have returned
DayResultsMenu == {FirstDay, OrchidsDay, ShortDay, QuietDay}

\* no results yet
NoResult == BacktestResult(0, 0, <<>>, <<>>, <<>>)

\* how far a chain of merges is: the number of days in it and what it gave
Merged(n, result) == [n |-> n, result |-> result]

Init ==
    /\ pc = "loop"
    /\ disable_trades_matching \in BOOLEAN
    /\ tick = 0
    /\ timestamp = 0
    /\ order_depths = <<>>
    /\ position = <<>>
    /\ own_trades = <<>>
    /\ state_market_trades = <<>>
    /\ profit_loss = [p \in Range(DataProducts) |-> 0]
    /\ data_trades = TradesByTimestamp(FileTrades)
    /\ orders = <<>>
    /\ sandbox_logs = <<>>
    /\ activity_logs = <<>>
    /\ result_trades = <<>>
    /\ market_trades = <<>>
    /\ product_i = 0
    /\ order_i = 0
    /\ new_trades = <<>>
    /\ order = NoOrder
    /\ trades = <<>>
    /\ price_matches = <<>>
    /\ market_trade_i = 0
    /\ requested = <<>>
    /\ h_depth = <<>>
    /\ h_trades = <<>>
    /\ h_new_trades = <<>>
    /\ h_result_trades = <<>>
    /\ program = "__main__"
    /\ merge_profit_loss = FALSE
    /\ merge_timestamps = TRUE
    /\ results = <<>>
    /\ merged_results = Merged(0, NoResult)
    /\ grouped_results = Merged(0, NoResult)
    /\ results0 = <<>>
    /\ trader_data = ""
    /\ state_traderData = ""
    /\ strategy = <<>>
    /\ run_no = 1
    /\ first_result = NoResult

(***************************************************************************)
(* prepare_state                                                           *)
(***************************************************************************)
RECURSIVE ZipDict(_, _, _)
\* for price, volume in zip(prices, volumes): d[price] = sign * volume
ZipDict(prices, volumes, sign) ==
    IF prices = <<>> \/ volumes = <<>> THEN <<>>
    ELSE LET n == Min(Len(prices), Len(volumes))
         IN  Put(ZipDict(SubSeq(prices, 1, n - 1), SubSeq(volumes, 1, n - 1), sign),
                 prices[n], sign * volumes[n])

\* the OrderDepth prepare_state builds from a price row: sell volumes negative
OrderDepthOf(row) ==
    [buy_orders |-> ZipDict(row.bid_prices, row.bid_volumes, 1),
     sell_orders |-> ZipDict(row.ask_prices, row.ask_volumes, -1)]

\* the books of the tick before kept where there are any
PrepareStateKeeping(depths, ts) ==
    [p \in DOMAIN depths \cup Range(DataProducts) |->
        IF p \in DOMAIN depths THEN depths[p] ELSE OrderDepthOf(DataPrices[ts][p])]

\* state.order_depths[product] = order_depth, for product in data.products
PrepareState(depths, ts) ==
    [p \in DOMAIN depths \cup Range(DataProducts) |->
        IF p \in Range(DataProducts) THEN OrderDepthOf(DataPrices[ts][p]) ELSE depths[p]]

\* state.traderData stays what the state was built with
LoopNextSameState ==
    /\ pc = "loop"
    /\ tick < Len(SortedTimestamps)
    /\ timestamp' = SortedTimestamps[tick + 1]
    /\ order_depths' = PrepareState(order_depths, SortedTimestamps[tick + 1])
    /\ pc' = "run"
    /\ UNCHANGED << disable_trades_matching, tick, position, own_trades,
                    state_market_trades, profit_loss, data_trades, orders,
                    sandbox_logs, activity_logs, result_trades, requested >>
    /\ UNCHANGED matching_vars
    /\ UNCHANGED history_vars
    /\ UNCHANGED merge_vars
    /\ UNCHANGED caller_vars
    /\ UNCHANGED carry_vars

\* the top of the loop: the next timestamp, and prepare_state
LoopNext ==
    /\ pc = "loop"
    /\ tick < Len(SortedTimestamps)
    /\ timestamp' = SortedTimestamps[tick + 1]
    /\ order_depths' = PrepareState(order_depths, SortedTimestamps[tick + 1])
    /\ pc' = "run"
    /\ UNCHANGED << disable_trades_matching, tick, position, own_trades,
                    state_market_trades, profit_loss, data_trades, orders,
                    sandbox_logs, activity_logs, result_trades, requested >>
    /\ UNCHANGED matching_vars
    /\ UNCHANGED history_vars
    /\ UNCHANGED merge_vars
    /\ UNCHANGED caller_vars
    /\ state_traderData' = trader_data
    /\ UNCHANGED trader_data

\* the loop is over: return result
Return ==
    /\ pc = "loop"
    /\ tick = Len(SortedTimestamps)
    /\ pc' = "done"
    /\ UNCHANGED << disable_trades_matching, tick, timestamp, order_depths, position,
                    own_trades, state_market_trades, profit_loss, data_trades, orders,
                    sandbox_logs, activity_logs, result_trades, requested >>
    /\ UNCHANGED matching_vars
    /\ UNCHANGED history_vars
    /\ UNCHANGED merge_vars
    /\ UNCHANGED caller_vars
    /\ UNCHANGED carry_vars

\* orders, conversions, trader_data = trader.run(state)
TraderRun ==
    /\ pc = "run"
    /\ \E ret \in TraderReturnsAt(timestamp) :
         /\ orders' = ret
         /\ requested' = ret
    /\ pc' = "sandbox_row"
    /\ UNCHANGED << disable_trades_matching, tick, timestamp, order_depths, position,
                    own_trades, state_market_trades, profit_loss, data_trades,
                    sandbox_logs, activity_logs, result_trades >>
    /\ UNCHANGED matching_vars
    /\ UNCHANGED history_vars
    /\ UNCHANGED merge_vars
    /\ UNCHANGED caller_vars
    /\ trader_data' = ""
    /\ UNCHANGED state_traderData

\* the row is not appended at this place
AppendSandboxRowNot ==
    /\ pc = "sandbox_row"
    /\ pc' = "activity_logs"
    /\ UNCHANGED << disable_trades_matching, tick, timestamp, order_depths, position,
                    own_trades, state_market_trades, profit_loss, data_trades, orders,
                    sandbox_logs, activity_logs, result_trades, requested >>
    /\ UNCHANGED matching_vars
    /\ UNCHANGED history_vars
    /\ UNCHANGED merge_vars
    /\ UNCHANGED caller_vars
    /\ UNCHANGED carry_vars

\* sandbox_row = SandboxLogRow(...); result.sandbox_logs.append(sandbox_row)
AppendSandboxRow ==
    /\ pc = "sandbox_row"
    /\ sandbox_logs' = Append(sandbox_logs,
                              [timestamp |-> timestamp, sandbox_log |-> <<>>,
                               lambda_log |-> <<>>])
    /\ pc' = "activity_logs"
    /\ UNCHANGED << disable_trades_matching, tick, timestamp, order_depths, position,
                    own_trades, state_market_trades, profit_loss, data_trades, orders,
                    activity_logs, result_trades, requested >>
    /\ UNCHANGED matching_vars
    /\ UNCHANGED history_vars
    /\ UNCHANGED merge_vars
    /\ UNCHANGED caller_vars
    /\ UNCHANGED carry_vars

(***************************************************************************)
(* create_activity_logs                                                    *)
(***************************************************************************)
\* the row without the position's value at the mid price
ActivityLogRowRealizedOnly(ts, product, pos, pnl) ==
    LET row == DataPrices[ts][product]
    IN  [timestamp |-> ts, product |-> product,
         bid_prices |-> row.bid_prices, bid_volumes |-> row.bid_volumes,
         ask_prices |-> row.ask_prices, ask_volumes |-> row.ask_volumes,
         mid_price2 |-> row.mid_price2,
         profit_loss2 |-> 2 * pnl[product]]

\* the row of one product: the columns that are not copied from the price
\* row are the timestamp and the profit and loss (in halves)
ActivityLogRow(ts, product, pos, pnl) ==
    LET row == DataPrices[ts][product]
        at == Get(pos, product, 0)
    IN  [timestamp |-> ts, product |-> product,
         bid_prices |-> row.bid_prices, bid_volumes |-> row.bid_volumes,
         ask_prices |-> row.ask_prices, ask_volumes |-> row.ask_volumes,
         mid_price2 |-> row.mid_price2,
         profit_loss2 |-> IF at # 0 THEN 2 * pnl[product] + at * row.mid_price2
                          ELSE 2 * pnl[product]]

CreateActivityLogs ==
    /\ pc = "activity_logs"
    /\ activity_logs' = activity_logs \o
            [i \in 1..Len(DataProducts) |->
                ActivityLogRow(timestamp, DataProducts[i], position, profit_loss)]
    /\ pc' = "enforce_limits"
    /\ UNCHANGED << disable_trades_matching, tick, timestamp, order_depths, position,
                    own_trades, state_market_trades, profit_loss, data_trades, orders,
                    sandbox_logs, result_trades, requested >>
    /\ UNCHANGED matching_vars
    /\ UNCHANGED history_vars
    /\ UNCHANGED merge_vars
    /\ UNCHANGED caller_vars
    /\ UNCHANGED carry_vars

(***************************************************************************)
(* enforce_limits                                                          *)
(***************************************************************************)
\* buys and sells set off against each other
TotalLongNet(product_orders) ==
    SumSeq([i \in 1..Len(product_orders) |-> product_orders[i].quantity])

\* sum(order.quantity for order in product_orders if order.quantity > 0)
TotalLong(product_orders) ==
    SumSeq([i \in 1..Len(product_orders) |->
              IF product_orders[i].quantity > 0 THEN product_orders[i].quantity ELSE 0])

\* sum(abs(order.quantity) for order in product_orders if order.quantity < 0)
TotalShort(product_orders) ==
    SumSeq([i \in 1..Len(product_orders) |->
              IF product_orders[i].quantity < 0 THEN Abs(product_orders[i].quantity) ELSE 0])

\* the condition under which a product's orders are dropped
ExceedsLimit(product_position, product_orders, limit) ==
    \/ product_position + TotalLong(product_orders) > limit
    \/ product_position - TotalShort(product_orders) < -limit

\* f"Orders for product {product} exceeded limit of {LIMITS[product]} set"
LimitLine(product) ==
    << "Orders for product ", product, " exceeded limit of ",
       ToString(LIMITS[product]), " set" >>

RECURSIVE EnforceFrom(_, _, _, _)
\* the loop over data.products from index i on: the orders left, the lines
\* collected, and whether orders.pop(product) raised KeyError (the key of a
\* product over its limit is not in the dict)
EnforceFrom(i, pos, ords, lines) ==
    IF i > Len(DataProducts) THEN [orders |-> ords, lines |-> lines, raised |-> FALSE]
    ELSE LET product == DataProducts[i]
             product_orders == Get(ords, product, <<>>)
             product_position == Get(pos, product, 0)
         IN  IF ExceedsLimit(product_position, product_orders, LIMITS[product])
             THEN IF product \in DOMAIN ords
                  THEN EnforceFrom(i + 1, pos, Pop(ords, product),
                                   Append(lines, LimitLine(product)))
                  ELSE [orders |-> ords, lines |-> Append(lines, LimitLine(product)),
                        raised |-> TRUE]
             ELSE EnforceFrom(i + 1, pos, ords, lines)

\* the first line alone
ViolationTextFirstOnly(sandbox_log, lines) ==
    IF Len(lines) > 0 THEN sandbox_log \o <<NL>> \o Head(lines) ELSE sandbox_log

\* sandbox_row.sandbox_log += "\n" + "\n".join(sandbox_log_lines)
ViolationText(sandbox_log, lines) ==
    IF Len(lines) > 0 THEN sandbox_log \o <<NL>> \o Join(lines, NL) ELSE sandbox_log

EnforceLimits ==
    /\ pc = "enforce_limits"
    /\ LET r == EnforceFrom(1, position, orders, <<>>)
           n == Len(sandbox_logs)
       IN  /\ orders' = r.orders
           /\ IF r.raised
              THEN /\ pc' = "KeyError"
                   /\ UNCHANGED sandbox_logs
              ELSE /\ pc' = "match_orders"
                   /\ sandbox_logs' =
                        [sandbox_logs EXCEPT
                           ![n].sandbox_log = ViolationText(@, r.lines)]
    /\ UNCHANGED << disable_trades_matching, tick, timestamp, order_depths, position,
                    own_trades, state_market_trades, profit_loss, data_trades,
                    activity_logs, result_trades, requested >>
    /\ UNCHANGED matching_vars
    /\ UNCHANGED history_vars
    /\ UNCHANGED merge_vars
    /\ UNCHANGED caller_vars
    /\ UNCHANGED carry_vars

(***************************************************************************)
(* match_orders                                                            *)
(***************************************************************************)
\* MarketTrade(trade, buy_quantity, sell_quantity)
MarketTrade(trade, buy_quantity, sell_quantity) ==
    [trade |-> trade, buy_quantity |-> buy_quantity, sell_quantity |-> sell_quantity]

\* market_trades[product] = [MarketTrade(t, t.quantity, t.quantity) for t in trades]
WrapTrades(entries) ==
    [e \in 1..Len(entries) |->
        [product |-> entries[e].product,
         trades |-> [k \in 1..Len(entries[e].trades) |->
                       MarketTrade(entries[e].trades[k], entries[e].trades[k].quantity,
                                   entries[e].trades[k].quantity)]]]

\* the place of a product's entry in a dict kept in insertion order, 0 when
\* the product is not a key
EntryOf(entries, product) ==
    IF \E e \in 1..Len(entries) : entries[e].product = product
    THEN CHOOSE e \in 1..Len(entries) : entries[e].product = product
    ELSE 0

\* the product match_orders' loop is at
Product == DataProducts[product_i]

\* market_trades.get(product, []) whatever disable_trades_matching is
PassedMarketTradesAlways ==
    IF EntryOf(market_trades, Product) = 0 THEN <<>>
    ELSE market_trades[EntryOf(market_trades, Product)].trades

\* [] if disable_trades_matching else market_trades.get(product, [])
PassedMarketTrades ==
    IF disable_trades_matching \/ EntryOf(market_trades, Product) = 0 THEN <<>>
    ELSE market_trades[EntryOf(market_trades, Product)].trades

MatchOrdersBegin ==
    /\ pc = "match_orders"
    /\ market_trades' = WrapTrades(Get(data_trades, timestamp, <<>>))
    /\ product_i' = 1
    /\ pc' = "product"
    /\ UNCHANGED << disable_trades_matching, tick, timestamp, order_depths, position,
                    own_trades, state_market_trades, profit_loss, data_trades, orders,
                    sandbox_logs, activity_logs, result_trades, requested,
                    order_i, new_trades, order, trades, price_matches, market_trade_i >>
    /\ UNCHANGED history_vars
    /\ UNCHANGED merge_vars
    /\ UNCHANGED caller_vars
    /\ UNCHANGED carry_vars

\* for product in data.products: new_trades = []
ProductBegin ==
    /\ pc = "product"
    /\ product_i <= Len(DataProducts)
    /\ new_trades' = <<>>
    /\ order_i' = 1
    /\ pc' = "order"
    /\ UNCHANGED << disable_trades_matching, tick, timestamp, order_depths, position,
                    own_trades, state_market_trades, profit_loss, data_trades, orders,
                    sandbox_logs, activity_logs, result_trades, requested,
                    market_trades, product_i, order, trades, price_matches,
                    market_trade_i >>
    /\ h_new_trades' = <<>>
    /\ UNCHANGED << h_depth, h_trades, h_result_trades >>
    /\ UNCHANGED merge_vars
    /\ UNCHANGED caller_vars
    /\ UNCHANGED carry_vars

\* all the asks, lowest first
BuyPriceMatchesAll(order_depth, o) ==
    SortedAsc(DOMAIN order_depth.sell_orders)

\* the asks at or under the order's price, highest first
BuyPriceMatchesDescending(order_depth, o) ==
    SortedDesc({price \in DOMAIN order_depth.sell_orders : price <= o.price})

\* price_matches of match_buy_order: the asks at or under the order's price,
\* lowest first
BuyPriceMatches(order_depth, o) ==
    SortedAsc({price \in DOMAIN order_depth.sell_orders : price <= o.price})

\* the best bid alone, when it is at or over the order's price
SellPriceMatchesBestOnly(order_depth, o) ==
    LET matches == SortedDesc({price \in DOMAIN order_depth.buy_orders : price >= o.price})
    IN  IF matches = <<>> THEN <<>> ELSE <<Head(matches)>>

\* price_matches of match_sell_order: the bids at or over the order's price,
\* highest first
SellPriceMatches(order_depth, o) ==
    SortedDesc({price \in DOMAIN order_depth.buy_orders : price >= o.price})

\* an order for nothing is taken for a buy order
OrderBeginZeroBuys ==
    /\ pc = "order"
    /\ order_i <= Len(Get(orders, Product, <<>>))
    /\ LET o == orders[Product][order_i]
       IN  /\ order' = o
           /\ trades' = <<>>
           /\ IF o.symbol \notin DOMAIN order_depths
              THEN /\ price_matches' = <<>>
                   /\ pc' = "KeyError"
              ELSE IF o.quantity >= 0
              THEN /\ price_matches' = BuyPriceMatches(order_depths[o.symbol], o)
                   /\ pc' = "buy_book"
              ELSE IF o.quantity < 0
              THEN /\ price_matches' = SellPriceMatches(order_depths[o.symbol], o)
                   /\ pc' = "sell_book"
              ELSE /\ price_matches' = <<>>
                   /\ pc' = "return"
    /\ UNCHANGED << disable_trades_matching, tick, timestamp, order_depths, position,
                    own_trades, state_market_trades, profit_loss, data_trades, orders,
                    sandbox_logs, activity_logs, result_trades, requested,
                    market_trades, product_i, order_i, new_trades, market_trade_i >>
    /\ h_depth' = Get(order_depths, orders[Product][order_i].symbol, h_depth)
    /\ h_trades' = <<>>
    /\ UNCHANGED << h_new_trades, h_result_trades >>
    /\ UNCHANGED merge_vars
    /\ UNCHANGED caller_vars
    /\ UNCHANGED carry_vars

\* for order in orders.get(product, []): match_order(...) up to the first
\* loop of match_buy_order or match_sell_order
OrderBegin ==
    /\ pc = "order"
    /\ order_i <= Len(Get(orders, Product, <<>>))
    /\ LET o == orders[Product][order_i]
       IN  /\ order' = o
           /\ trades' = <<>>
           /\ IF o.quantity # 0 /\ o.symbol \notin DOMAIN order_depths
              THEN /\ price_matches' = <<>>
                   /\ pc' = "KeyError"
              ELSE IF o.quantity > 0
              THEN /\ price_matches' = BuyPriceMatches(order_depths[o.symbol], o)
                   /\ pc' = "buy_book"
              ELSE IF o.quantity < 0
              THEN /\ price_matches' = SellPriceMatches(order_depths[o.symbol], o)
                   /\ pc' = "sell_book"
              ELSE /\ price_matches' = <<>>
                   /\ pc' = "return"
    /\ UNCHANGED << disable_trades_matching, tick, timestamp, order_depths, position,
                    own_trades, state_market_trades, profit_loss, data_trades, orders,
                    sandbox_logs, activity_logs, result_trades, requested,
                    market_trades, product_i, order_i, new_trades, market_trade_i >>
    /\ h_depth' = Get(order_depths, orders[Product][order_i].symbol, h_depth)
    /\ h_trades' = <<>>
    /\ UNCHANGED << h_new_trades, h_result_trades >>
    /\ UNCHANGED merge_vars
    /\ UNCHANGED caller_vars
    /\ UNCHANGED carry_vars

\* the position is set to the fill, not moved by it
PositionAfterOverwrite(pos, symbol, change) == Put(pos, symbol, change)

\* state.position[order.symbol] = state.position.get(order.symbol, 0) + volume,
\* and - volume for a sell order
PositionAfter(pos, symbol, change) == Put(pos, symbol, Get(pos, symbol, 0) + change)

\* the order's quantity after a fill; the Order object is the one in the
\* orders dict
SetQuantity(ords, product, i, quantity) ==
    [ords EXCEPT ![product] = [@ EXCEPT ![i] = [@ EXCEPT !.quantity = quantity]]]

\* the level is left as it was
TakeAskNot(sell_orders, price, volume) == sell_orders

\* order_depth.sell_orders[price] += volume, and pop(price) at 0
TakeAsk(sell_orders, price, volume) ==
    IF sell_orders[price] + volume = 0 THEN Pop(sell_orders, price)
    ELSE [sell_orders EXCEPT ![price] = @ + volume]

\* the level stays in the book when nothing is left of it
TakeBidKept(buy_orders, price, volume) == [buy_orders EXCEPT ![price] = @ - volume]

\* order_depth.buy_orders[price] -= volume, and pop(price) at 0
TakeBid(buy_orders, price, volume) ==
    IF buy_orders[price] - volume = 0 THEN Pop(buy_orders, price)
    ELSE [buy_orders EXCEPT ![price] = @ - volume]

\* the whole order at the first level
BuyBookVolumeWhole(o, sell_orders, price) == o.quantity

\* the volume of a fill of a buy order at an ask level
BuyBookVolume(o, sell_orders, price) == Min(o.quantity, Abs(sell_orders[price]))

\* all that the level holds
SellBookVolumeLevel(o, buy_orders, price) == buy_orders[price]

\* the order's quantity with its sign
SellBookVolumeSigned(o, buy_orders, price) == Min(o.quantity, buy_orders[price])

\* the volume of a fill of a sell order at a bid level
SellBookVolume(o, buy_orders, price) == Min(Abs(o.quantity), buy_orders[price])

\* one turn of match_buy_order's loop over price_matches
BuyBookFill ==
    /\ pc = "buy_book"
    /\ price_matches # <<>>
    /\ LET price == Head(price_matches)
           order_depth == order_depths[order.symbol]
           volume == BuyBookVolume(order, order_depth.sell_orders, price)
       IN  /\ trades' = Append(trades,
                               Trade(order.symbol, price, volume, SUBMISSION, "", timestamp))
           /\ position' = PositionAfter(position, order.symbol, volume)
           /\ profit_loss' = [profit_loss EXCEPT ![order.symbol] = @ - price * volume]
           /\ order_depths' = [order_depths EXCEPT ![order.symbol].sell_orders =
                                 TakeAsk(@, price, volume)]
           /\ order' = [order EXCEPT !.quantity = @ - volume]
           /\ orders' = SetQuantity(orders, Product, order_i, order.quantity - volume)
           /\ price_matches' = Tail(price_matches)
           /\ pc' = IF order.quantity - volume = 0 THEN "return" ELSE "buy_book"
    /\ UNCHANGED << disable_trades_matching, tick, timestamp, own_trades,
                    state_market_trades, data_trades, sandbox_logs, activity_logs,
                    result_trades, requested, market_trades, product_i, order_i,
                    new_trades, market_trade_i >>
    /\ h_trades' = Append(h_trades, Origin(timestamp, Product, order_i, "book", 0))
    /\ UNCHANGED << h_depth, h_new_trades, h_result_trades >>
    /\ UNCHANGED merge_vars
    /\ UNCHANGED caller_vars
    /\ UNCHANGED carry_vars

\* match_buy_order's first loop is over: on to the market trades
BuyBookEnd ==
    /\ pc = "buy_book"
    /\ price_matches = <<>>
    /\ market_trade_i' = 1
    /\ pc' = "buy_trades"
    /\ UNCHANGED << disable_trades_matching, tick, timestamp, order_depths, position,
                    own_trades, state_market_trades, profit_loss, data_trades, orders,
                    sandbox_logs, activity_logs, result_trades, requested,
                    market_trades, product_i, order_i, new_trades, order, trades,
                    price_matches >>
    /\ UNCHANGED history_vars
    /\ UNCHANGED merge_vars
    /\ UNCHANGED caller_vars
    /\ UNCHANGED carry_vars

\* the market trade the second loop is at
MarketTradeAt == PassedMarketTrades[market_trade_i]

\* if market_trade.sell_quantity == 0 or market_trade.trade.price > order.price
BuySkips(market_trade, o) ==
    market_trade.sell_quantity = 0 \/ market_trade.trade.price > o.price

\* if market_trade.buy_quantity == 0 or market_trade.trade.price < order.price
SellSkips(market_trade, o) ==
    market_trade.buy_quantity = 0 \/ market_trade.trade.price < o.price

\* one turn of match_buy_order's second loop: continue
BuyTradeSkip ==
    /\ pc = "buy_trades"
    /\ market_trade_i <= Len(PassedMarketTrades)
    /\ BuySkips(MarketTradeAt, order)
    /\ market_trade_i' = market_trade_i + 1
    /\ UNCHANGED << pc, disable_trades_matching, tick, timestamp, order_depths, position,
                    own_trades, state_market_trades, profit_loss, data_trades, orders,
                    sandbox_logs, activity_logs, result_trades, requested,
                    market_trades, product_i, order_i, new_trades, order, trades,
                    price_matches >>
    /\ UNCHANGED history_vars
    /\ UNCHANGED merge_vars
    /\ UNCHANGED caller_vars
    /\ UNCHANGED carry_vars

\* a fill against a market trade is priced at the market trade's price
TradeFillPriceRecorded(o, market_trade) == market_trade.trade.price

\* the price of a fill against a market trade: order.price
TradeFillPrice(o, market_trade) == o.price

\* one counter for both sides
TakeBuyQuantityShared(market_trade, volume) ==
    [market_trade EXCEPT !.buy_quantity = @ - volume, !.sell_quantity = @ - volume]

\* market_trade.sell_quantity -= volume
TakeSellQuantity(market_trade, volume) ==
    [market_trade EXCEPT !.sell_quantity = @ - volume]

\* market_trade.buy_quantity -= volume
TakeBuyQuantity(market_trade, volume) ==
    [market_trade EXCEPT !.buy_quantity = @ - volume]

\* one turn of match_buy_order's second loop: a fill
BuyTradeFill ==
    /\ pc = "buy_trades"
    /\ market_trade_i <= Len(PassedMarketTrades)
    /\ ~BuySkips(MarketTradeAt, order)
    /\ LET market_trade == MarketTradeAt
           e == EntryOf(market_trades, Product)
           price == TradeFillPrice(order, market_trade)
           volume == Min(order.quantity, market_trade.sell_quantity)
       IN  /\ trades' = Append(trades,
                               Trade(order.symbol, price, volume, SUBMISSION,
                                     market_trade.trade.seller, timestamp))
           /\ position' = PositionAfter(position, order.symbol, volume)
           /\ profit_loss' = [profit_loss EXCEPT ![order.symbol] = @ - price * volume]
           /\ market_trades' = [market_trades EXCEPT
                                  ![e].trades[market_trade_i] = TakeSellQuantity(@, volume)]
           /\ order' = [order EXCEPT !.quantity = @ - volume]
           /\ orders' = SetQuantity(orders, Product, order_i, order.quantity - volume)
           /\ market_trade_i' = market_trade_i + 1
           /\ pc' = IF order.quantity - volume = 0 THEN "return" ELSE "buy_trades"
    /\ UNCHANGED << disable_trades_matching, tick, timestamp, order_depths, own_trades,
                    state_market_trades, data_trades, sandbox_logs, activity_logs,
                    result_trades, requested, product_i, order_i, new_trades,
                    price_matches >>
    /\ h_trades' = Append(h_trades,
                             Origin(timestamp, Product, order_i, "trade", market_trade_i))
    /\ UNCHANGED << h_depth, h_new_trades, h_result_trades >>
    /\ UNCHANGED merge_vars
    /\ UNCHANGED caller_vars
    /\ UNCHANGED carry_vars

\* match_buy_order's second loop is over: return trades
BuyTradesEnd ==
    /\ pc = "buy_trades"
    /\ market_trade_i > Len(PassedMarketTrades)
    /\ pc' = "return"
    /\ UNCHANGED << disable_trades_matching, tick, timestamp, order_depths, position,
                    own_trades, state_market_trades, profit_loss, data_trades, orders,
                    sandbox_logs, activity_logs, result_trades, requested,
                    market_trades, product_i, order_i, new_trades, order, trades,
                    price_matches, market_trade_i >>
    /\ UNCHANGED history_vars
    /\ UNCHANGED merge_vars
    /\ UNCHANGED caller_vars
    /\ UNCHANGED carry_vars

\* one turn of match_sell_order's loop over price_matches
SellBookFill ==
    /\ pc = "sell_book"
    /\ price_matches # <<>>
    /\ LET price == Head(price_matches)
           order_depth == order_depths[order.symbol]
           volume == SellBookVolume(order, order_depth.buy_orders, price)
       IN  /\ trades' = Append(trades,
                               Trade(order.symbol, price, volume, "", SUBMISSION, timestamp))
           /\ position' = PositionAfter(position, order.symbol, -volume)
           /\ profit_loss' = [profit_loss EXCEPT ![order.symbol] = @ + price * volume]
           /\ order_depths' = [order_depths EXCEPT ![order.symbol].buy_orders =
                                 TakeBid(@, price, volume)]
           /\ order' = [order EXCEPT !.quantity = @ + volume]
           /\ orders' = SetQuantity(orders, Product, order_i, order.quantity + volume)
           /\ price_matches' = Tail(price_matches)
           /\ pc' = IF order.quantity + volume = 0 THEN "return" ELSE "sell_book"
    /\ UNCHANGED << disable_trades_matching, tick, timestamp, own_trades,
                    state_market_trades, data_trades, sandbox_logs, activity_logs,
                    result_trades, requested, market_trades, product_i, order_i,
                    new_trades, market_trade_i >>
    /\ h_trades' = Append(h_trades, Origin(timestamp, Product, order_i, "book", 0))
    /\ UNCHANGED << h_depth, h_new_trades, h_result_trades >>
    /\ UNCHANGED merge_vars
    /\ UNCHANGED caller_vars
    /\ UNCHANGED carry_vars

\* match_sell_order's first loop is over: on to the market trades
SellBookEnd ==
    /\ pc = "sell_book"
    /\ price_matches = <<>>
    /\ market_trade_i' = 1
    /\ pc' = "sell_trades"
    /\ UNCHANGED << disable_trades_matching, tick, timestamp, order_depths, position,
                    own_trades, state_market_trades, profit_loss, data_trades, orders,
                    sandbox_logs, activity_logs, result_trades, requested,
                    market_trades, product_i, order_i, new_trades, order, trades,
                    price_matches >>
    /\ UNCHANGED history_vars
    /\ UNCHANGED merge_vars
    /\ UNCHANGED caller_vars
    /\ UNCHANGED carry_vars

\* one turn of match_sell_order's second loop: continue
SellTradeSkip ==
    /\ pc = "sell_trades"
    /\ market_trade_i <= Len(PassedMarketTrades)
    /\ SellSkips(MarketTradeAt, order)
    /\ market_trade_i' = market_trade_i + 1
    /\ UNCHANGED << pc, disable_trades_matching, tick, timestamp, order_depths, position,
                    own_trades, state_market_trades, profit_loss, data_trades, orders,
                    sandbox_logs, activity_logs, result_trades, requested,
                    market_trades, product_i, order_i, new_trades, order, trades,
                    price_matches >>
    /\ UNCHANGED history_vars
    /\ UNCHANGED merge_vars
    /\ UNCHANGED caller_vars
    /\ UNCHANGED carry_vars

\* one turn of match_sell_order's second loop: a fill
SellTradeFill ==
    /\ pc = "sell_trades"
    /\ market_trade_i <= Len(PassedMarketTrades)
    /\ ~SellSkips(MarketTradeAt, order)
    /\ LET market_trade == MarketTradeAt
           e == EntryOf(market_trades, Product)
           price == TradeFillPrice(order, market_trade)
           volume == Min(Abs(order.quantity), market_trade.buy_quantity)
       IN  /\ trades' = Append(trades,
                               Trade(order.symbol, price, volume, market_trade.trade.buyer,
                                     SUBMISSION, timestamp))
           /\ position' = PositionAfter(position, order.symbol, -volume)
           /\ profit_loss' = [profit_loss EXCEPT ![order.symbol] = @ + price * volume]
           /\ market_trades' = [market_trades EXCEPT
                                  ![e].trades[market_trade_i] = TakeBuyQuantity(@, volume)]
           /\ order' = [order EXCEPT !.quantity = @ + volume]
           /\ orders' = SetQuantity(orders, Product, order_i, order.quantity + volume)
           /\ market_trade_i' = market_trade_i + 1
           /\ pc' = IF order.quantity + volume = 0 THEN "return" ELSE "sell_trades"
    /\ UNCHANGED << disable_trades_matching, tick, timestamp, order_depths, own_trades,
                    state_market_trades, data_trades, sandbox_logs, activity_logs,
                    result_trades, requested, product_i, order_i, new_trades,
                    price_matches >>
    /\ h_trades' = Append(h_trades,
                             Origin(timestamp, Product, order_i, "trade", market_trade_i))
    /\ UNCHANGED << h_depth, h_new_trades, h_result_trades >>
    /\ UNCHANGED merge_vars
    /\ UNCHANGED caller_vars
    /\ UNCHANGED carry_vars

\* match_sell_order's second loop is over: return trades
SellTradesEnd ==
    /\ pc = "sell_trades"
    /\ market_trade_i > Len(PassedMarketTrades)
    /\ pc' = "return"
    /\ UNCHANGED << disable_trades_matching, tick, timestamp, order_depths, position,
                    own_trades, state_market_trades, profit_loss, data_trades, orders,
                    sandbox_logs, activity_logs, result_trades, requested,
                    market_trades, product_i, order_i, new_trades, order, trades,
                    price_matches, market_trade_i >>
    /\ UNCHANGED history_vars
    /\ UNCHANGED merge_vars
    /\ UNCHANGED caller_vars
    /\ UNCHANGED carry_vars

\* match_order has returned: new_trades.extend(...), and the next order
OrderReturn ==
    /\ pc = "return"
    /\ new_trades' = new_trades \o trades
    /\ order_i' = order_i + 1
    /\ pc' = "order"
    /\ UNCHANGED << disable_trades_matching, tick, timestamp, order_depths, position,
                    own_trades, state_market_trades, profit_loss, data_trades, orders,
                    sandbox_logs, activity_logs, result_trades, requested,
                    market_trades, product_i, order, trades, price_matches,
                    market_trade_i >>
    /\ h_new_trades' = h_new_trades \o h_trades
    /\ UNCHANGED << h_depth, h_trades, h_result_trades >>
    /\ UNCHANGED merge_vars
    /\ UNCHANGED caller_vars
    /\ UNCHANGED carry_vars

\* the product's orders are through: if len(new_trades) > 0, they become
\* state.own_trades[product] and go to result.trades; the next product
ProductEnd ==
    /\ pc = "order"
    /\ order_i > Len(Get(orders, Product, <<>>))
    /\ IF Len(new_trades) > 0
       THEN /\ own_trades' = Put(own_trades, Product, new_trades)
            /\ result_trades' = result_trades \o new_trades
       ELSE UNCHANGED << own_trades, result_trades >>
    /\ product_i' = product_i + 1
    /\ pc' = "product"
    /\ UNCHANGED << disable_trades_matching, tick, timestamp, order_depths, position,
                    state_market_trades, profit_loss, data_trades, orders,
                    sandbox_logs, activity_logs, requested,
                    market_trades, order_i, new_trades, order, trades, price_matches,
                    market_trade_i >>
    /\ h_result_trades' = IF Len(new_trades) > 0 THEN h_result_trades \o h_new_trades
                           ELSE h_result_trades
    /\ UNCHANGED << h_depth, h_trades, h_new_trades >>
    /\ UNCHANGED merge_vars
    /\ UNCHANGED caller_vars
    /\ UNCHANGED carry_vars

\* what is left on the buy side alone
RemainingQuantityBuySide(market_trade) == market_trade.buy_quantity

\* trade.trade.quantity = min(trade.buy_quantity, trade.sell_quantity)
RemainingQuantity(market_trade) == Min(market_trade.buy_quantity, market_trade.sell_quantity)

\* the Trade objects of an entry after the loop that sets their quantity
SetRemaining(entry_trades) ==
    [k \in 1..Len(entry_trades) |->
        [entry_trades[k].trade EXCEPT !.quantity = RemainingQuantity(entry_trades[k])]]

\* remaining_market_trades = [t.trade for t in trades if t.trade.quantity > 0]
Remaining(entry_trades) ==
    SelectSeq(SetRemaining(entry_trades), LAMBDA t : t.quantity > 0)

RECURSIVE PutEntries(_, _)
\* state.market_trades[product] = remaining_market_trades, entry by entry
PutEntries(smt, entries) ==
    IF entries = <<>> THEN smt
    ELSE PutEntries(Put(smt, Head(entries).product, Remaining(Head(entries).trades)),
                    Tail(entries))

RECURSIVE ExtendEntries(_, _)
\* result.trades.extend(TradeRow(trade) for trade in remaining_market_trades),
\* entry by entry
ExtendEntries(rows, entries) ==
    IF entries = <<>> THEN rows
    ELSE ExtendEntries(rows \o Remaining(Head(entries).trades), Tail(entries))

RECURSIVE MarketOrigins(_)
\* the origins of the entries ExtendEntries adds
MarketOrigins(entries) ==
    IF entries = <<>> THEN <<>>
    ELSE LET n == Len(entries)
             kept == SelectSeq([k \in 1..Len(entries[n].trades) |-> k],
                               LAMBDA k : RemainingQuantity(entries[n].trades[k]) > 0)
         IN  MarketOrigins(SubSeq(entries, 1, n - 1)) \o
             [j \in 1..Len(kept) |->
                Origin(entries[n].trades[kept[j]].trade.timestamp, entries[n].product,
                       0, "market", kept[j])]

\* match_orders returns and the loop's turn ends: the locals of match_orders
\* are gone, and orders is not read again before trader.run rebinds it
MatchingOver ==
    /\ market_trades' = <<>>
    /\ product_i' = 0
    /\ order_i' = 0
    /\ new_trades' = <<>>
    /\ order' = NoOrder
    /\ trades' = <<>>
    /\ price_matches' = <<>>
    /\ market_trade_i' = 0
    /\ orders' = <<>>
    /\ requested' = <<>>

\* match_orders' last loop, over market_trades.items(); the Trade objects
\* it writes to are those of data.trades.  The tick is over.
EmitMarketTrades ==
    /\ pc = "product"
    /\ product_i > Len(DataProducts)
    /\ state_market_trades' = PutEntries(state_market_trades, market_trades)
    /\ result_trades' = ExtendEntries(result_trades, market_trades)
    /\ data_trades' =
         IF timestamp \in DOMAIN data_trades
         THEN [data_trades EXCEPT ![timestamp] =
                 [e \in 1..Len(market_trades) |->
                     [product |-> market_trades[e].product,
                      trades |-> SetRemaining(market_trades[e].trades)]]]
         ELSE data_trades
    /\ tick' = tick + 1
    /\ pc' = "loop"
    /\ MatchingOver
    /\ UNCHANGED << disable_trades_matching, timestamp, order_depths, position,
                    own_trades, profit_loss, sandbox_logs, activity_logs >>
    /\ h_result_trades' = h_result_trades \o MarketOrigins(market_trades)
    /\ h_depth' = <<>>
    /\ h_trades' = <<>>
    /\ h_new_trades' = <<>>
    /\ UNCHANGED merge_vars
    /\ UNCHANGED caller_vars
    /\ UNCHANGED carry_vars

Next ==
    \/ LoopNext
    \/ Return
    \/ TraderRun
    \/ AppendSandboxRow
    \/ CreateActivityLogs
    \/ EnforceLimits
    \/ MatchOrdersBegin
    \/ ProductBegin
    \/ OrderBegin
    \/ BuyBookFill
    \/ BuyBookEnd
    \/ BuyTradeSkip
    \/ BuyTradeFill
    \/ BuyTradesEnd
    \/ SellBookFill
    \/ SellBookEnd
    \/ SellTradeSkip
    \/ SellTradeFill
    \/ SellTradesEnd
    \/ OrderReturn
    \/ ProductEnd
    \/ EmitMarketTrades

Spec == Init /\ [][Next]_vars

\* run_backtest is one sequential program and a call of the strategy
\* returns: while it has a step to take, it takes one
FairSpec == Spec /\ WF_vars(Next)

(***************************************************************************)
(* A deterministic strategy, and a day that is run twice with it.  What    *)
(* trader.run does at a tick is fixed beforehand: the orders it returns,   *)
(* the trader_data it returns and what it writes into state.position, the  *)
(* dict of the state it is given.                                          *)
(***************************************************************************)
\* what trader.run does at one tick
Behaviour(ret, data, writes) == [orders |-> ret, trader_data |-> data, writes |-> writes]

\* orders for a symbol that has no price rows and no limit, under its own
\* key and under STARFRUIT; a buy that goes through the book into the
\* trades; a buy and a sell that pass trades by, with an order for nothing
\* between them; a sell; a buy by a strategy that sets its STARFRUIT position
\* to 15
Behaviours ==
    { Behaviour(OneKey("PEARLS", <<Order("PEARLS", 12, 8)>>), "", <<>>),
      Behaviour(OneKey("STARFRUIT", <<Order("PEARLS", 12, 8)>>), "", <<>>),
      Behaviour(OneKey("STARFRUIT", <<Order("STARFRUIT", 12, 20)>>), "a", <<>>),
      Behaviour(OneKey("STARFRUIT", <<Order("STARFRUIT", 9, 8), Order("STARFRUIT", 12, 0),
                                      Order("STARFRUIT", 12, -4)>>),
                "b", <<>>),
      Behaviour(OneKey("STARFRUIT", <<Order("STARFRUIT", 9, -20)>>), "a", <<>>),
      Behaviour(OneKey("STARFRUIT", <<Order("STARFRUIT", 12, 8)>>), "b",
                OneKey("STARFRUIT", 15)) }

\* state.position[product] = value, for every write of the strategy
Written(pos, writes) ==
    [p \in DOMAIN pos \cup DOMAIN writes |-> IF p \in DOMAIN writes THEN writes[p] ELSE pos[p]]

\* the day's data as create_backtest_data builds it and the state and the
\* result as run_backtest sets out with them
ReplayInit ==
    /\ pc = "loop"
    /\ disable_trades_matching \in BOOLEAN
    /\ tick = 0
    /\ timestamp = 0
    /\ order_depths = <<>>
    /\ position = <<>>
    /\ own_trades = <<>>
    /\ state_market_trades = <<>>
    /\ profit_loss = [p \in Range(DataProducts) |-> 0]
    /\ data_trades = TradesByTimestamp(FileTrades)
    /\ orders = <<>>
    /\ sandbox_logs = <<>>
    /\ activity_logs = <<>>
    /\ result_trades = <<>>
    /\ market_trades = <<>>
    /\ product_i = 0
    /\ order_i = 0
    /\ new_trades = <<>>
    /\ order = NoOrder
    /\ trades = <<>>
    /\ price_matches = <<>>
    /\ market_trade_i = 0
    /\ requested = <<>>
    /\ h_depth = <<>>
    /\ h_trades = <<>>
    /\ h_new_trades = <<>>
    /\ h_result_trades = <<>>
    /\ program = "__main__"
    /\ merge_profit_loss = FALSE
    /\ merge_timestamps = TRUE
    /\ results = <<>>
    /\ merged_results = Merged(0, NoResult)
    /\ grouped_results = Merged(0, NoResult)
    /\ results0 = <<>>
    /\ trader_data = ""
    /\ state_traderData = ""
    /\ strategy \in [1..NumTicks -> Behaviours]
    /\ run_no = 1
    /\ first_result = NoResult

\* orders, conversions, trader_data = trader.run(state), for a strategy that
\* does at each tick what was fixed for it
TraderRunPlanned ==
    /\ pc = "run"
    /\ strategy # <<>>
    /\ orders' = strategy[tick + 1].orders
    /\ requested' = strategy[tick + 1].orders
    /\ trader_data' = strategy[tick + 1].trader_data
    /\ position' = Written(position, strategy[tick + 1].writes)
    /\ pc' = "sandbox_row"
    /\ UNCHANGED << disable_trades_matching, tick, timestamp, order_depths,
                    own_trades, state_market_trades, profit_loss, data_trades,
                    sandbox_logs, activity_logs, result_trades, state_traderData >>
    /\ UNCHANGED matching_vars
    /\ UNCHANGED history_vars
    /\ UNCHANGED merge_vars
    /\ UNCHANGED caller_vars

\* the second run is given the data object of the first
RerunSameData ==
    /\ pc = "done"
    /\ run_no = 1
    /\ first_result' = BacktestResult(0, 0, sandbox_logs, activity_logs, result_trades)
    /\ run_no' = 2
    /\ pc' = "loop"
    /\ tick' = 0
    /\ timestamp' = 0
    /\ order_depths' = <<>>
    /\ position' = <<>>
    /\ own_trades' = <<>>
    /\ state_market_trades' = <<>>
    /\ sandbox_logs' = <<>>
    /\ activity_logs' = <<>>
    /\ result_trades' = <<>>
    /\ h_result_trades' = <<>>
    /\ trader_data' = ""
    /\ state_traderData' = ""
    /\ UNCHANGED << disable_trades_matching, profit_loss, data_trades, orders, requested,
                    h_depth, h_trades, h_new_trades, strategy >>
    /\ UNCHANGED matching_vars
    /\ UNCHANGED merge_vars

\* the first run has returned: the day's data are built again by
\* create_backtest_data and run_backtest is called again with the same
\* strategy
Rerun ==
    /\ pc = "done"
    /\ run_no = 1
    /\ first_result' = BacktestResult(0, 0, sandbox_logs, activity_logs, result_trades)
    /\ run_no' = 2
    /\ pc' = "loop"
    /\ tick' = 0
    /\ timestamp' = 0
    /\ order_depths' = <<>>
    /\ position' = <<>>
    /\ own_trades' = <<>>
    /\ state_market_trades' = <<>>
    /\ profit_loss' = [p \in Range(DataProducts) |-> 0]
    /\ data_trades' = TradesByTimestamp(FileTrades)
    /\ sandbox_logs' = <<>>
    /\ activity_logs' = <<>>
    /\ result_trades' = <<>>
    /\ h_result_trades' = <<>>
    /\ trader_data' = ""
    /\ state_traderData' = ""
    /\ UNCHANGED << disable_trades_matching, orders, requested, h_depth, h_trades,
                    h_new_trades, strategy >>
    /\ UNCHANGED matching_vars
    /\ UNCHANGED merge_vars

ReplayNext ==
    \/ LoopNext
    \/ Return
    \/ TraderRunPlanned
    \/ AppendSandboxRow
    \/ CreateActivityLogs
    \/ EnforceLimits
    \/ MatchOrdersBegin
    \/ ProductBegin
    \/ OrderBegin
    \/ BuyBookFill
    \/ BuyBookEnd
    \/ BuyTradeSkip
    \/ BuyTradeFill
    \/ BuyTradesEnd
    \/ SellBookFill
    \/ SellBookEnd
    \/ SellTradeSkip
    \/ SellTradeFill
    \/ SellTradesEnd
    \/ OrderReturn
    \/ ProductEnd
    \/ EmitMarketTrades
    \/ Rerun

ReplaySpec == ReplayInit /\ [][ReplayNext]_vars

(***************************************************************************)
(* models.py: the rows' with_offset                                        *)
(***************************************************************************)
\* lambda_log.replace(f"[[{old},", f"[[{new},")
ReplaceMark(lambda_log, old, new) ==
    [i \in 1..Len(lambda_log) |->
        IF lambda_log[i] = Mark(old) THEN Mark(new) ELSE lambda_log[i]]

\* SandboxLogRow.with_offset
SandboxLogRowWithOffset(row, timestamp_offset) ==
    SandboxLogRow(row.timestamp + timestamp_offset,
                  row.sandbox_log,
                  ReplaceMark(row.lambda_log, row.timestamp, row.timestamp + timestamp_offset))

\* the copy with the profit and loss added to and the timestamp as it was
ActivityLogRowWithOffsetPnlOnly(row, timestamp_offset, profit_loss_offset) ==
    [row EXCEPT !.profit_loss2 = @ + profit_loss_offset]

\* ActivityLogRow.with_offset: a copy of the columns with columns[1] and
\* columns[-1] added to
ActivityLogRowWithOffset(row, timestamp_offset, profit_loss_offset) ==
    [row EXCEPT !.timestamp = @ + timestamp_offset,
                !.profit_loss2 = @ + profit_loss_offset]

\* TradeRow.with_offset
TradeRowWithOffset(row, timestamp_offset) ==
    Trade(row.symbol, row.price, row.quantity, row.buyer, row.seller,
          row.timestamp + timestamp_offset)

(***************************************************************************)
(* __main__.py: merge_results                                              *)
(***************************************************************************)
\* a_last_timestamp = a.activity_logs[-1].timestamp
LastTimestamp(a) == a.activity_logs[Len(a.activity_logs)].timestamp

\* the offset that is 100 too small
TimestampOffsetFromLast(a, with_timestamps) ==
    IF with_timestamps THEN LastTimestamp(a) ELSE 0

\* timestamp_offset
TimestampOffset(a, with_timestamps) ==
    IF with_timestamps THEN LastTimestamp(a) + 100 ELSE 0

RECURSIVE ScanBack(_, _, _, _)
\* for row in reversed(a.activity_logs): break at the first row of another
\* timestamp, profit_loss_offsets[row.columns[2]] = row.columns[-1]
ScanBack(logs, k, last, offsets) ==
    IF k = 0 \/ logs[k].timestamp # last THEN offsets
    ELSE ScanBack(logs, k - 1, last, Put(offsets, logs[k].product, logs[k].profit_loss2))

\* profit_loss_offsets, a defaultdict(float)
ProfitLossOffsets(a) ==
    ScanBack(a.activity_logs, Len(a.activity_logs), LastTimestamp(a), <<>>)

\* the exception merge_results raises, "" when it raises none
MergeRaises(a, with_profit_loss, with_timestamps) ==
    IF with_timestamps /\ a.activity_logs = <<>> THEN "IndexError"
    ELSE IF with_profit_loss /\ ~with_timestamps /\ a.activity_logs # <<>>
         THEN "UnboundLocalError"
         ELSE ""

\* what merge_results returns when it raises nothing
merge_results(a, b, with_profit_loss, with_timestamps) ==
    LET timestamp_offset == TimestampOffset(a, with_timestamps)
        profit_loss_offsets ==
            IF with_profit_loss /\ a.activity_logs # <<>> THEN ProfitLossOffsets(a)
            ELSE <<>>
    IN  BacktestResult(a.round_num, a.day_num,
            a.sandbox_logs \o
                [i \in 1..Len(b.sandbox_logs) |->
                    SandboxLogRowWithOffset(b.sandbox_logs[i], timestamp_offset)],
            a.activity_logs \o
                [i \in 1..Len(b.activity_logs) |->
                    ActivityLogRowWithOffset(b.activity_logs[i], timestamp_offset,
                        Get(profit_loss_offsets, b.activity_logs[i].product, 0))],
            a.trades \o
                [i \in 1..Len(b.trades) |-> TradeRowWithOffset(b.trades[i], timestamp_offset)])

(***************************************************************************)
(* main.py: merge_results, with rows that are changed in place             *)
(***************************************************************************)
\* offset_sandbox_log_row: the row it returns is the row it was given
offset_sandbox_log_row(row, timestamp_offset) ==
    [row EXCEPT !.lambda_log = ReplaceMark(@, row.timestamp, row.timestamp + timestamp_offset),
                !.timestamp = @ + timestamp_offset]

\* offset_trade: the same
offset_trade(trade, timestamp_offset) ==
    [trade EXCEPT !.timestamp = @ + timestamp_offset]

\* b after main.py's merge_results(a, b, ...): its sandbox rows and trades
\* are the objects the two helpers wrote into
OffsetInPlace(a, b) ==
    [b EXCEPT !.sandbox_logs =
                 [i \in 1..Len(b.sandbox_logs) |->
                     offset_sandbox_log_row(b.sandbox_logs[i], LastTimestamp(a) + 100)],
              !.trades =
                 [i \in 1..Len(b.trades) |->
                     offset_trade(b.trades[i], LastTimestamp(a) + 100)]]

\* what main.py's merge_results returns
main_merge_results(a, b, with_profit_loss) ==
    LET timestamp_offset == LastTimestamp(a) + 100
        profit_loss_offsets == IF with_profit_loss THEN ProfitLossOffsets(a) ELSE <<>>
    IN  BacktestResult(a.round_num, a.day_num,
            a.sandbox_logs \o OffsetInPlace(a, b).sandbox_logs,
            a.activity_logs \o
                [i \in 1..Len(b.activity_logs) |->
                    ActivityLogRowWithOffset(b.activity_logs[i], timestamp_offset,
                        Get(profit_loss_offsets, b.activity_logs[i].product, 0))],
            a.trades \o OffsetInPlace(a, b).trades)

(***************************************************************************)
(* reduce(lambda a, b: merge_results(a, b, ...), results)                  *)
(***************************************************************************)
\* the variables of run_backtest, which the merging leaves alone
run_vars == << disable_trades_matching, tick, timestamp, order_depths, position,
               own_trades, state_market_trades, profit_loss, data_trades, orders,
               sandbox_logs, activity_logs, result_trades, market_trades, product_i,
               order_i, new_trades, order, trades, price_matches, market_trade_i,
               requested, h_depth, h_trades, h_new_trades, h_result_trades,
               trader_data, state_traderData, strategy, run_no, first_result >>

\* the days have been run; reduce starts from the first day's result (for
\* the other grouping, from the last day's)
MergeInit ==
    /\ pc = "reduce"
    /\ disable_trades_matching = FALSE
    /\ tick = 0
    /\ timestamp = 0
    /\ order_depths = <<>>
    /\ position = <<>>
    /\ own_trades = <<>>
    /\ state_market_trades = <<>>
    /\ profit_loss = <<>>
    /\ data_trades = <<>>
    /\ orders = <<>>
    /\ sandbox_logs = <<>>
    /\ activity_logs = <<>>
    /\ result_trades = <<>>
    /\ market_trades = <<>>
    /\ product_i = 0
    /\ order_i = 0
    /\ new_trades = <<>>
    /\ order = NoOrder
    /\ trades = <<>>
    /\ price_matches = <<>>
    /\ market_trade_i = 0
    /\ requested = <<>>
    /\ h_depth = <<>>
    /\ h_trades = <<>>
    /\ h_new_trades = <<>>
    /\ h_result_trades = <<>>
    /\ trader_data = ""
    /\ state_traderData = ""
    /\ strategy = <<>>
    /\ run_no = 1
    /\ first_result = NoResult
    /\ program \in {"__main__", "main"}
    /\ merge_profit_loss \in BOOLEAN
    /\ merge_timestamps \in (IF program = "main" THEN {TRUE} ELSE BOOLEAN)
    /\ results \in [1..NumDays -> DayResultsMenu]
    /\ results0 = results
    /\ merged_results = Merged(1, results[1])
    /\ grouped_results = Merged(1, results[NumDays])

\* one call of __main__.py's merge_results by reduce
MergeStep ==
    /\ pc = "reduce"
    /\ program = "__main__"
    /\ merged_results.n < NumDays
    /\ LET a == merged_results.result
           b == results[merged_results.n + 1]
           raised == MergeRaises(a, merge_profit_loss, merge_timestamps)
       IN  IF raised # ""
           THEN /\ pc' = raised
                /\ UNCHANGED merged_results
           ELSE /\ merged_results' =
                     Merged(merged_results.n + 1,
                            merge_results(a, b, merge_profit_loss, merge_timestamps))
                /\ pc' = pc
    /\ UNCHANGED << program, merge_profit_loss, merge_timestamps, results,
                    grouped_results, results0 >>
    /\ UNCHANGED run_vars

\* one call of __main__.py's merge_results when the later days are merged
\* first: merge_results(a, merge_results(b, c))
GroupStep ==
    /\ pc = "reduce"
    /\ program = "__main__"
    /\ grouped_results.n < NumDays
    /\ LET a == results[NumDays - grouped_results.n]
           b == grouped_results.result
           raised == MergeRaises(a, merge_profit_loss, merge_timestamps)
       IN  IF raised # ""
           THEN /\ pc' = raised
                /\ UNCHANGED grouped_results
           ELSE /\ grouped_results' =
                     Merged(grouped_results.n + 1,
                            merge_results(a, b, merge_profit_loss, merge_timestamps))
                /\ pc' = pc
    /\ UNCHANGED << program, merge_profit_loss, merge_timestamps, results,
                    merged_results, results0 >>
    /\ UNCHANGED run_vars

\* one call of main.py's merge_results by reduce
MainMergeStep ==
    /\ pc = "reduce"
    /\ program = "main"
    /\ merged_results.n < NumDays
    /\ LET a == merged_results.result
           b == results[merged_results.n + 1]
       IN  /\ merged_results' =
                Merged(merged_results.n + 1, main_merge_results(a, b, merge_profit_loss))
           /\ results' = [results EXCEPT ![merged_results.n + 1] = OffsetInPlace(a, b)]
    /\ pc' = pc
    /\ UNCHANGED << program, merge_profit_loss, merge_timestamps, grouped_results,
                    results0 >>
    /\ UNCHANGED run_vars

\* reduce has returned: write_output(output_file, merged_results)
WriteOutput ==
    /\ pc = "reduce"
    /\ merged_results.n = NumDays
    /\ program = "__main__" => grouped_results.n = NumDays
    /\ pc' = "written"
    /\ UNCHANGED merge_vars
    /\ UNCHANGED run_vars

MergeNext ==
    \/ MergeStep
    \/ GroupStep
    \/ MainMergeStep
    \/ WriteOutput

MergeSpec == MergeInit /\ [][MergeNext]_vars

(***************************************************************************)
(* __main__.py's merging when a day's run returned no rows                 *)
(***************************************************************************)
\* what run_backtest returns for a day whose data have no price rows: the
\* loop over sorted(data.prices.keys()) has nothing to take
EmptyDay == BacktestResult(1, 3, <<>>, <<>>, <<>>)

\* the days have been run and one of them or more gave no rows
EmptyDayInit ==
    /\ pc = "reduce"
    /\ disable_trades_matching = FALSE
    /\ tick = 0
    /\ timestamp = 0
    /\ order_depths = <<>>
    /\ position = <<>>
    /\ own_trades = <<>>
    /\ state_market_trades = <<>>
    /\ profit_loss = <<>>
    /\ data_trades = <<>>
    /\ orders = <<>>
    /\ sandbox_logs = <<>>
    /\ activity_logs = <<>>
    /\ result_trades = <<>>
    /\ market_trades = <<>>
    /\ product_i = 0
    /\ order_i = 0
    /\ new_trades = <<>>
    /\ order = NoOrder
    /\ trades = <<>>
    /\ price_matches = <<>>
    /\ market_trade_i = 0
    /\ requested = <<>>
    /\ h_depth = <<>>
    /\ h_trades = <<>>
    /\ h_new_trades = <<>>
    /\ h_result_trades = <<>>
    /\ trader_data = ""
    /\ state_traderData = ""
    /\ strategy = <<>>
    /\ run_no = 1
    /\ first_result = NoResult
    /\ program = "__main__"
    /\ merge_profit_loss \in BOOLEAN
    /\ merge_timestamps \in BOOLEAN
    /\ results \in [1..NumDays -> DayResultsMenu \cup {EmptyDay}]
    /\ \E k \in 1..NumDays : results[k] = EmptyDay
    /\ results0 = results
    /\ merged_results = Merged(1, results[1])
    /\ grouped_results = Merged(1, results[NumDays])

EmptyDayNext ==
    \/ MergeStep
    \/ GroupStep
    \/ WriteOutput

EmptyDaySpec == EmptyDayInit /\ [][EmptyDayNext]_vars

(***************************************************************************)
(* core.py: run_backtest, the loop that main.py runs a day with.  Orders   *)
(* are matched against the order depths only, and the trades of a tick are *)
(* collected from own_trades and from the day's trades after the matching. *)
(***************************************************************************)
\* what the strategy may return to core.py's run_backtest: nothing, a buy, a
\* sell, a buy of the other product, a batch over the limit
CoreReturns ==
    { <<>>,
      OneKey("STARFRUIT", <<Order("STARFRUIT", 12, 8)>>),
      OneKey("STARFRUIT", <<Order("STARFRUIT", 7, -4)>>),
      OneKey("AMETHYSTS", <<Order("AMETHYSTS", 12, 20)>>),
      OneKey("STARFRUIT", <<Order("STARFRUIT", 12, 8), Order("STARFRUIT", 12, 20)>>) }

RECURSIVE process_buy_order(_, _, _, _, _)
\* process_buy_order from the level prices[1] on: the trades and the asks
\* it leaves
process_buy_order(ts, o, prices, sell_orders, new) ==
    IF prices = <<>> THEN [trades |-> new, book |-> sell_orders]
    ELSE LET price == Head(prices)
             volume == Min(o.quantity, Abs(sell_orders[price]))
             t == Trade(o.symbol, price, volume, SUBMISSION, "", ts)
             left == IF sell_orders[price] + volume = 0 THEN Pop(sell_orders, price)
                     ELSE [sell_orders EXCEPT ![price] = @ + volume]
         IN  IF o.quantity - volume = 0
             THEN [trades |-> Append(new, t), book |-> left]
             ELSE process_buy_order(ts, [o EXCEPT !.quantity = @ - volume], Tail(prices),
                                    left, Append(new, t))

RECURSIVE process_sell_order(_, _, _, _, _)
\* process_sell_order from the level prices[1] on: the trades and the bids
\* it leaves
process_sell_order(ts, o, prices, buy_orders, new) ==
    IF prices = <<>> THEN [trades |-> new, book |-> buy_orders]
    ELSE LET price == Head(prices)
             volume == Min(Abs(o.quantity), buy_orders[price])
             t == Trade(o.symbol, price, volume, "", SUBMISSION, ts)
             left == IF buy_orders[price] - volume = 0 THEN Pop(buy_orders, price)
                     ELSE [buy_orders EXCEPT ![price] = @ - volume]
         IN  IF o.quantity + volume = 0
             THEN [trades |-> Append(new, t), book |-> left]
             ELSE process_sell_order(ts, [o EXCEPT !.quantity = @ + volume], Tail(prices),
                                     left, Append(new, t))

\* process_order: the trades of an order and the order depths it leaves
process_order(ts, o, depths) ==
    IF o.quantity > 0
    THEN LET r == process_buy_order(ts, o,
                      SortedAsc({x \in DOMAIN depths[o.symbol].sell_orders : x <= o.price}),
                      depths[o.symbol].sell_orders, <<>>)
         IN  [trades |-> r.trades,
              depths |-> [depths EXCEPT ![o.symbol].sell_orders = r.book]]
    ELSE IF o.quantity < 0
    THEN LET r == process_sell_order(ts, o,
                      SortedDesc({x \in DOMAIN depths[o.symbol].buy_orders : x >= o.price}),
                      depths[o.symbol].buy_orders, <<>>)
         IN  [trades |-> r.trades,
              depths |-> [depths EXCEPT ![o.symbol].buy_orders = r.book]]
    ELSE [trades |-> <<>>, depths |-> depths]

RECURSIVE ProcessOrders(_, _, _, _)
\* for order in orders_by_symbol.get(product, []): new_trades.extend(...)
ProcessOrders(ts, product_orders, depths, new) ==
    IF product_orders = <<>> THEN [trades |-> new, depths |-> depths]
    ELSE LET r == process_order(ts, Head(product_orders), depths)
         IN  ProcessOrders(ts, Tail(product_orders), r.depths, new \o r.trades)

RECURSIVE ProcessProducts(_, _, _, _, _, _)
\* for product in tradable_products: own_trades as the loop leaves it, and
\* all the new trades
ProcessProducts(ts, i, ords, depths, own, new) ==
    IF i > Len(DataProducts) THEN [own_trades |-> own, new_trades |-> new]
    ELSE LET product == DataProducts[i]
             r == ProcessOrders(ts, Get(ords, product, <<>>), depths, <<>>)
         IN  ProcessProducts(ts, i + 1, ords, r.depths,
                             IF Len(r.trades) > 0 THEN Put(own, product, r.trades) ELSE own,
                             new \o r.trades)

RECURSIVE Concat(_)
\* the lists of a list, one after the other
Concat(lists) == IF lists = <<>> THEN <<>> ELSE Head(lists) \o Concat(Tail(lists))

\* current_trades: own_trades[product] of every product, then
\* trades_by_timestamp[timestamp][product] of every product
CurrentTrades(ts, own) ==
    Concat([i \in 1..Len(DataProducts) |-> Get(own, DataProducts[i], <<>>)]) \o
    Concat([i \in 1..Len(DataProducts) |->
               SelectSeq(FileTrades,
                         LAMBDA t : t.timestamp = ts /\ t.symbol = DataProducts[i])])

RECURSIVE PutTrades(_, _)
\* market_trades[product] = trades, for the products trading at the timestamp
PutTrades(mt, entries) ==
    IF entries = <<>> THEN mt
    ELSE PutTrades(Put(mt, Head(entries).product, Head(entries).trades), Tail(entries))

RECURSIVE AfterTrades(_, _, _)
\* own_positions and profit_loss_by_product after the trades of a tick
AfterTrades(pos, pnl, new) ==
    IF new = <<>> THEN [position |-> pos, profit_loss |-> pnl]
    ELSE LET t == Head(new)
             sign == IF t.buyer = SUBMISSION THEN 1 ELSE -1
         IN  AfterTrades(Put(pos, t.symbol, Get(pos, t.symbol, 0) + sign * t.quantity),
                         [pnl EXCEPT ![t.symbol] = @ - sign * t.price * t.quantity],
                         Tail(new))

\* run_backtest of core.py before its loop
CoreInit ==
    /\ pc = "loop"
    /\ disable_trades_matching = TRUE
    /\ tick = 0
    /\ timestamp = 0
    /\ order_depths = <<>>
    /\ position = <<>>
    /\ own_trades = <<>>
    /\ state_market_trades = <<>>
    /\ profit_loss = [p \in Range(DataProducts) |-> 0]
    /\ data_trades = TradesByTimestamp(FileTrades)
    /\ orders = <<>>
    /\ sandbox_logs = <<>>
    /\ activity_logs = <<>>
    /\ result_trades = <<>>
    /\ market_trades = <<>>
    /\ product_i = 0
    /\ order_i = 0
    /\ new_trades = <<>>
    /\ order = NoOrder
    /\ trades = <<>>
    /\ price_matches = <<>>
    /\ market_trade_i = 0
    /\ requested = <<>>
    /\ h_depth = <<>>
    /\ h_trades = <<>>
    /\ h_new_trades = <<>>
    /\ h_result_trades = <<>>
    /\ program = "main"
    /\ merge_profit_loss = FALSE
    /\ merge_timestamps = TRUE
    /\ results = <<>>
    /\ merged_results = Merged(0, NoResult)
    /\ grouped_results = Merged(0, NoResult)
    /\ results0 = <<>>
    /\ trader_data = ""
    /\ state_traderData = ""
    /\ strategy = <<>>
    /\ run_no = 1
    /\ first_result = NoResult

\* one turn of the loop of core.py's run_backtest
CoreTick ==
    /\ pc = "loop"
    /\ tick < Len(SortedTimestamps)
    /\ \E ret \in CoreReturns :
         LET ts == SortedTimestamps[tick + 1]
             depths == [p \in Range(DataProducts) |-> OrderDepthOf(DataPrices[ts][p])]
             checked == EnforceFrom(1, position, ret, <<>>)
             matched == ProcessProducts(ts, 1, checked.orders, depths, own_trades, <<>>)
             after == AfterTrades(position, profit_loss, matched.new_trades)
         IN  /\ timestamp' = ts
             /\ order_depths' = depths
             /\ requested' = ret
             /\ orders' = checked.orders
             /\ activity_logs' = activity_logs \o
                    [i \in 1..Len(DataProducts) |->
                        ActivityLogRow(ts, DataProducts[i], position, profit_loss)]
             /\ IF checked.raised
                THEN /\ pc' = "KeyError"
                     /\ UNCHANGED << tick, position, profit_loss, own_trades, sandbox_logs,
                                     result_trades, new_trades, state_market_trades >>
                ELSE /\ pc' = "loop"
                     /\ tick' = tick + 1
                     /\ sandbox_logs' =
                            Append(sandbox_logs,
                                   [timestamp |-> ts,
                                    sandbox_log |-> ViolationText(<<>>, checked.lines),
                                    lambda_log |-> <<>>])
                     /\ own_trades' = matched.own_trades
                     /\ new_trades' = matched.new_trades
                     /\ position' = after.position
                     /\ profit_loss' = after.profit_loss
                     /\ state_market_trades' =
                            PutTrades(state_market_trades, Get(data_trades, ts, <<>>))
                     /\ result_trades' = result_trades \o CurrentTrades(ts, matched.own_trades)
    /\ UNCHANGED << disable_trades_matching, data_trades,
                    market_trades, product_i, order_i, order, trades, price_matches,
                    market_trade_i >>
    /\ UNCHANGED history_vars
    /\ UNCHANGED merge_vars
    /\ UNCHANGED caller_vars
    /\ UNCHANGED carry_vars

\* the loop is over: return result
CoreReturn ==
    /\ pc = "loop"
    /\ tick = Len(SortedTimestamps)
    /\ pc' = "done"
    /\ UNCHANGED << disable_trades_matching, tick, timestamp, order_depths, position,
                    own_trades, state_market_trades, profit_loss, data_trades, orders,
                    sandbox_logs, activity_logs, result_trades, requested >>
    /\ UNCHANGED matching_vars
    /\ UNCHANGED history_vars
    /\ UNCHANGED merge_vars
    /\ UNCHANGED caller_vars
    /\ UNCHANGED carry_vars

CoreNext ==
    \/ CoreTick
    \/ CoreReturn

CoreSpec == CoreInit /\ [][CoreNext]_vars

(***************************************************************************)
(* C1.  After every tick (enforce_limits and match_orders have run), the   *)
(* position of each product of the day lies within [-LIMITS, +LIMITS],     *)
(* whatever orders the strategy returned.                                  *)
(***************************************************************************)
PositionWithinLimits ==
    pc = "loop" =>
        \A p \in Range(DataProducts) :
            /\ -LIMITS[p] <= Get(position, p, 0)
            /\ Get(position, p, 0) <= LIMITS[p]

(***************************************************************************)
(* What the claims are stated with.                                        *)
(***************************************************************************)
\* the products of the day
Products == Range(DataProducts)

\* the sandbox row of the tick
SandboxRow == sandbox_logs[Len(sandbox_logs)]

\* a product whose requested quantities, taken gross, would leave the limit
OverLimit(pos, product_orders, product) ==
    \/ pos + TotalLong(product_orders) > LIMITS[product]
    \/ pos - TotalShort(product_orders) < -LIMITS[product]

\* between enforce_limits and the end of the tick: the product's key was in
\* the dict the strategy returned and enforce_limits took it out
Dropped(product) ==
    /\ pc \notin {"loop", "run", "sandbox_row", "activity_logs", "enforce_limits", "done"}
    /\ product \in DOMAIN requested
    /\ product \notin DOMAIN orders

\* match_order is at work on an order
InMatchOrder == pc \in {"buy_book", "buy_trades", "sell_book", "sell_trades", "return"}

\* the fills of the tick that are not in result.trades yet
PendingFills ==
    IF InMatchOrder THEN new_trades \o trades
    ELSE IF pc = "order" THEN new_trades
    ELSE <<>>

\* where they came from
PendingOrigins ==
    IF InMatchOrder THEN h_new_trades \o h_trades
    ELSE IF pc = "order" THEN h_new_trades
    ELSE <<>>

\* the trade log so far, the tick's pending fills included
AllFills == result_trades \o PendingFills

\* where its entries came from
AllOrigins == h_result_trades \o PendingOrigins

\* the trades of the file with a timestamp and a symbol, in the file's order
OriginalTrades(ts, symbol) ==
    SelectSeq(FileTrades, LAMBDA t : t.timestamp = ts /\ t.symbol = symbol)

\* a trade of the strategy
IsFill(t) == t.buyer = SUBMISSION \/ t.seller = SUBMISSION

\* the entries of s from index n + 1 on
From(s, n) == SubSeq(s, n + 1, Len(s))

RECURSIVE SplitLines(_)
\* text.split("\n"), on a text given as its pieces
SplitLines(text) ==
    IF \A i \in 1..Len(text) : text[i] # NL THEN <<text>>
    ELSE LET i == CHOOSE k \in 1..Len(text) :
                    text[k] = NL /\ \A j \in 1..(k - 1) : text[j] # NL
         IN  <<SubSeq(text, 1, i - 1)>> \o SplitLines(From(text, i))

(***************************************************************************)
(* C2.  A product that enforce_limits finds over its limit loses all its   *)
(* orders for the tick: the call returns with the product's key taken out  *)
(* of the dict and the other products' lists as they were, and until the   *)
(* tick is over the product gets no fill and its position, its realized    *)
(* P&L and its order book stay as they are.                                *)
(***************************************************************************)
RejectedBatchIsDropped ==
    [][/\ pc = "enforce_limits" =>
            /\ pc' = "match_orders"
            /\ \A p \in Products :
                 IF OverLimit(Get(position, p, 0), Get(orders, p, <<>>), p)
                 THEN p \notin DOMAIN orders'
                 ELSE /\ (p \in DOMAIN orders) = (p \in DOMAIN orders')
                      /\ Get(orders', p, <<>>) = Get(orders, p, <<>>)
       /\ \A p \in Products :
            Dropped(p) =>
                /\ Get(position', p, 0) = Get(position, p, 0)
                /\ profit_loss'[p] = profit_loss[p]
                /\ order_depths'[p] = order_depths[p]
                /\ \A i \in (Len(AllFills) + 1)..Len(AllFills') :
                     IsFill(AllFills'[i]) => AllFills'[i].symbol # p
      ]_vars

(***************************************************************************)
(* C3.  When enforce_limits returns, the violation text of the tick's      *)
(* sandbox row holds, for the products over their limit taken in the order *)
(* of data.products, the line "Orders for product P exceeded limit of L    *)
(* set", once each and separated by newlines, and no other text but the    *)
(* newline in front; it is empty exactly when no product is over its       *)
(* limit.  The rows of earlier ticks stay as they are.                     *)
(***************************************************************************)
ViolationLinesMatchRejections ==
    [][(pc = "enforce_limits" /\ pc' = "match_orders") =>
          LET rejected == SelectSeq(DataProducts,
                              LAMBDA p : OverLimit(Get(position, p, 0),
                                                   Get(orders, p, <<>>), p))
              text == sandbox_logs'[Len(sandbox_logs')].sandbox_log
              lines == SelectSeq(SplitLines(text), LAMBDA l : l # <<>>)
          IN  /\ Len(sandbox_logs') = Len(sandbox_logs)
              /\ \A i \in 1..(Len(sandbox_logs) - 1) : sandbox_logs'[i] = sandbox_logs[i]
              /\ sandbox_logs'[Len(sandbox_logs')].timestamp = timestamp
              /\ Len(lines) = Len(rejected)
              /\ \A i \in 1..Len(rejected) :
                   lines[i] = << "Orders for product ", rejected[i], " exceeded limit of ",
                                 ToString(LIMITS[rejected[i]]), " set" >>
              /\ (text = <<>>) = (rejected = <<>>)
              /\ text # <<>> => Len(SplitLines(text)) = Len(rejected) + 1
              /\ \A p \in Products :
                   (p \in DOMAIN orders /\ p \notin DOMAIN orders') =
                   (\E i \in 1..Len(rejected) : rejected[i] = p)
      ]_vars

\* both products of the day rejected at one tick, AMETHYSTS' line first
TwoProductsRejected ==
    /\ pc = "match_orders"
    /\ SandboxRow.sandbox_log =
         << NL, "Orders for product ", "AMETHYSTS", " exceeded limit of ", "20", " set",
            NL, "Orders for product ", "STARFRUIT", " exceeded limit of ", "20", " set" >>

(***************************************************************************)
(* C4.  Phase 1 takes the crossing levels best price first.  A step of the *)
(* matching that changes an ask level is made for a buy order of the       *)
(* level's product, the level's price is at or under the order's price,    *)
(* and the book holds no ask under it; a step that changes a bid level is  *)
(* made for a sell order, the level's price is at or over the order's      *)
(* price, and the book holds no bid over it.  No level is added.  While an *)
(* order is in either loop it has quantity left, and the step that fills   *)
(* it is the order's last.                                                 *)
(***************************************************************************)
\* the prices of the levels a step changes
Touched(book, book2) == {x \in DOMAIN book : x \notin DOMAIN book2 \/ book2[x] # book[x]}

BookTakenBestFirst ==
    [][/\ pc # "loop" =>
            \A p \in Products :
                LET asks == order_depths[p].sell_orders
                    bids == order_depths[p].buy_orders
                IN  /\ DOMAIN order_depths'[p].sell_orders \subseteq DOMAIN asks
                    /\ DOMAIN order_depths'[p].buy_orders \subseteq DOMAIN bids
                    /\ \A x \in Touched(asks, order_depths'[p].sell_orders) :
                         /\ pc = "buy_book"
                         /\ order.symbol = p /\ order.quantity > 0
                         /\ x <= order.price
                         /\ \A y \in DOMAIN asks : y >= x
                    /\ \A x \in Touched(bids, order_depths'[p].buy_orders) :
                         /\ pc = "sell_book"
                         /\ order.symbol = p /\ order.quantity < 0
                         /\ x >= order.price
                         /\ \A y \in DOMAIN bids : y <= x
       /\ pc \in {"buy_book", "buy_trades"} => order.quantity > 0
       /\ pc \in {"sell_book", "sell_trades"} => order.quantity < 0
       /\ (/\ pc \in {"buy_book", "buy_trades", "sell_book", "sell_trades"}
           /\ order'.quantity = 0) => pc' = "return"
      ]_vars

\* a buy of 20 at 12 has taken the asks at 10 and then at 11, has 10 left,
\* and the ask at 13 is as it was
TwoAsksTakenInOrder ==
    /\ pc = "buy_book"
    /\ Len(trades) = 2
    /\ trades[1].price = 10 /\ trades[2].price = 11
    /\ order = Order("STARFRUIT", 12, 10)
    /\ order_depths["STARFRUIT"].sell_orders = [x \in {13} |-> -15]

(***************************************************************************)
(* C5.  A fill of a buy order at an ask level adds one trade to the        *)
(* order's trades: its price is the level's price, its volume is the       *)
(* smaller of the order's remaining quantity and the level's volume, and   *)
(* the order and the level go down by that volume.  When the first loop is *)
(* over, the volume filled from the book is the smaller of the quantity    *)
(* the order came with and the volume of the asks at or under its price.   *)
(* With asks 5 at 10 and 5 at 11, a buy of 8 at 12 gets 5 at 10, then 3 at *)
(* 11: two trades, nothing left, position 8, P&L -83.                      *)
(***************************************************************************)
\* the quantity the order at hand came with
RequestedQuantity == requested[Product][order_i].quantity

\* the volume of the asks at or under a price in a book
CrossingAskVolume(order_depth, price) ==
    LET xs == SortedAsc({x \in DOMAIN order_depth.sell_orders : x <= price})
    IN  SumSeq([i \in 1..Len(xs) |-> -order_depth.sell_orders[xs[i]]])

\* the volume of the order's trades that came from the book
BookVolume ==
    SumSeq([i \in 1..Len(trades) |->
              IF h_trades[i].kind = "book" THEN trades[i].quantity ELSE 0])

BuyBookFillVolumes ==
    [][/\ (pc = "buy_book" /\ trades' # trades) =>
            \E x \in DOMAIN order_depths[order.symbol].sell_orders :
                LET asks == order_depths[order.symbol].sell_orders
                    asks2 == order_depths'[order.symbol].sell_orders
                    volume == IF order.quantity <= -asks[x] THEN order.quantity ELSE -asks[x]
                IN  /\ trades' = Append(trades, [timestamp |-> timestamp,
                                                 symbol |-> order.symbol,
                                                 price |-> x,
                                                 quantity |-> volume,
                                                 buyer |-> SUBMISSION,
                                                 seller |-> ""])
                    /\ volume > 0
                    /\ order'.quantity = order.quantity - volume
                    /\ orders'[Product][order_i].quantity = order.quantity - volume
                    /\ IF volume = -asks[x]
                       THEN asks2 = [y \in DOMAIN asks \ {x} |-> asks[y]]
                       ELSE asks2 = [asks EXCEPT ![x] = asks[x] + volume]
       /\ (pc \in {"buy_trades", "return"} /\ RequestedQuantity > 0) =>
            BookVolume = Min(RequestedQuantity, CrossingAskVolume(h_depth, order.price))
       /\ (/\ pc = "return"
           /\ timestamp = 0
           /\ requested = OneKey("STARFRUIT", <<Order("STARFRUIT", 12, 8)>>)) =>
            /\ trades = << Trade("STARFRUIT", 10, 5, SUBMISSION, "", 0),
                           Trade("STARFRUIT", 11, 3, SUBMISSION, "", 0) >>
            /\ order.quantity = 0
            /\ orders["STARFRUIT"][1].quantity = 0
            /\ position = OneKey("STARFRUIT", 8)
            /\ profit_loss["STARFRUIT"] = -(5 * 10 + 3 * 11)
      ]_vars

\* the buy of 8 at 12 of the first tick has returned
BuyEightAtTwelveFilled ==
    /\ pc = "return"
    /\ timestamp = 0
    /\ requested = OneKey("STARFRUIT", <<Order("STARFRUIT", 12, 8)>>)
    /\ h_depth.sell_orders[10] = -5 /\ h_depth.sell_orders[11] = -5
    /\ Len(trades) = 2

(***************************************************************************)
(* C6.  A fill of a buy order against a market trade is made against the   *)
(* first trade, in the order of the trade data of the tick and of the      *)
(* product whose orders are matched, that has sell capacity left and a     *)
(* price at or under the order's price; every trade before it in the list  *)
(* is out of capacity or priced over the order's price.  The fill's volume *)
(* is the smaller of the order's remaining quantity and that capacity, its *)
(* price is the order's price, its counterparty the trade's seller; the    *)
(* capacity and the order go down by the volume and the book is as it was. *)
(* The same holds for a sell order with buy capacity, a price at or over   *)
(* the order's price and the trade's buyer.  Capacities change in no other *)
(* way, and with disable_trades_matching there is no such fill.            *)
(***************************************************************************)
\* the market trades of the product whose orders are matched
ProductMarketTrades ==
    IF EntryOf(market_trades, Product) = 0 THEN <<>>
    ELSE market_trades[EntryOf(market_trades, Product)].trades

TradeFillsAtOrderPrice ==
    [][/\ (pc = "buy_trades" /\ trades' # trades) =>
            LET e == EntryOf(market_trades, Product)
                L == ProductMarketTrades
            IN  /\ ~disable_trades_matching
                /\ Len(L) = Len(OriginalTrades(timestamp, Product))
                /\ \E k \in 1..Len(L) :
                     LET volume == IF order.quantity <= L[k].sell_quantity
                                   THEN order.quantity ELSE L[k].sell_quantity
                     IN  /\ L[k].trade = OriginalTrades(timestamp, Product)[k]
                         /\ L[k].sell_quantity > 0
                         /\ L[k].trade.price <= order.price
                         /\ \A j \in 1..(k - 1) :
                              L[j].sell_quantity = 0 \/ L[j].trade.price > order.price
                         /\ trades' = Append(trades, [timestamp |-> timestamp,
                                                      symbol |-> order.symbol,
                                                      price |-> order.price,
                                                      quantity |-> volume,
                                                      buyer |-> SUBMISSION,
                                                      seller |-> L[k].trade.seller])
                         /\ market_trades' =
                              [market_trades EXCEPT
                                 ![e].trades[k].sell_quantity = L[k].sell_quantity - volume]
                         /\ order'.quantity = order.quantity - volume
                         /\ order_depths' = order_depths
       /\ (pc = "sell_trades" /\ trades' # trades) =>
            LET e == EntryOf(market_trades, Product)
                L == ProductMarketTrades
            IN  /\ ~disable_trades_matching
                /\ Len(L) = Len(OriginalTrades(timestamp, Product))
                /\ \E k \in 1..Len(L) :
                     LET volume == IF -order.quantity <= L[k].buy_quantity
                                   THEN -order.quantity ELSE L[k].buy_quantity
                     IN  /\ L[k].trade = OriginalTrades(timestamp, Product)[k]
                         /\ L[k].buy_quantity > 0
                         /\ L[k].trade.price >= order.price
                         /\ \A j \in 1..(k - 1) :
                              L[j].buy_quantity = 0 \/ L[j].trade.price < order.price
                         /\ trades' = Append(trades, [timestamp |-> timestamp,
                                                      symbol |-> order.symbol,
                                                      price |-> order.price,
                                                      quantity |-> volume,
                                                      buyer |-> L[k].trade.buyer,
                                                      seller |-> SUBMISSION])
                         /\ market_trades' =
                              [market_trades EXCEPT
                                 ![e].trades[k].buy_quantity = L[k].buy_quantity - volume]
                         /\ order'.quantity = order.quantity + volume
                         /\ order_depths' = order_depths
       /\ (InMatchOrder /\ market_trades' # market_trades) =>
            pc \in {"buy_trades", "sell_trades"} /\ trades' # trades
      ]_vars

\* a buy at 12 has got 3 at 12 from Al's trade, which was made at 9
BoughtFromAlAtTwelve ==
    /\ pc = "buy_trades"
    /\ trades # <<>>
    /\ trades[Len(trades)] = Trade("STARFRUIT", 12, 3, SUBMISSION, "Al", 0)
    /\ ProductMarketTrades[1].trade.price = 9
    /\ ProductMarketTrades[1].sell_quantity = 0

(***************************************************************************)
(* C7.  An order is in the loop over the market trades only with quantity  *)
(* left and with no level left in the book that crosses its price: no ask  *)
(* at or under a buy order's price, no bid at or over a sell order's       *)
(* price.  In the order's trades, and so in the trade log, its fills from  *)
(* the book come before its fills from market trades.                      *)
(***************************************************************************)
HistoryOnlyAfterBook ==
    /\ pc = "buy_trades" =>
         /\ order.quantity > 0
         /\ \A x \in DOMAIN order_depths[order.symbol].sell_orders : x > order.price
    /\ pc = "sell_trades" =>
         /\ order.quantity < 0
         /\ \A x \in DOMAIN order_depths[order.symbol].buy_orders : x < order.price
    /\ Len(AllOrigins) = Len(AllFills)
    /\ \A i, j \in 1..Len(AllOrigins) :
         (/\ i < j
          /\ AllOrigins[i].kind = "trade"
          /\ AllOrigins[j].kind = "book") =>
            \/ AllOrigins[i].timestamp # AllOrigins[j].timestamp
            \/ AllOrigins[i].product # AllOrigins[j].product
            \/ AllOrigins[i].order_i # AllOrigins[j].order_i

\* the log holds an order's fill from the book and, next, one from a market
\* trade
BookThenHistoryInLog ==
    \E i \in 1..(Len(result_trades) - 1) :
        /\ h_result_trades[i].kind = "book"
        /\ h_result_trades[i + 1].kind = "trade"
        /\ h_result_trades[i].order_i = h_result_trades[i + 1].order_i
        /\ h_result_trades[i].product = h_result_trades[i + 1].product
        /\ result_trades[i].seller = "" /\ result_trades[i + 1].seller = "Al"

(***************************************************************************)
(* C8.  While a tick's orders are matched, every market trade of the tick  *)
(* has two counters.  The volume the strategy's buy orders have got from   *)
(* the trade is its quantity less its sell_quantity, the volume its sell   *)
(* orders have got is its quantity less its buy_quantity, and neither      *)
(* counter goes under 0: neither side gets more than the trade's quantity, *)
(* and what one side gets takes nothing from the other.  After a sell of 4 *)
(* at 12 against the trade of 10 at 12, the trade has 6 left for sell      *)
(* orders and 10 for buy orders, and a sell of 8 that follows gets 6.      *)
(***************************************************************************)
\* the volume of the tick's fills of one side against the market trade at
\* place k of a product's list
FilledAgainst(product, k, buys) ==
    SumSeq([i \in 1..Len(AllFills) |->
              IF /\ AllOrigins[i].timestamp = timestamp
                 /\ AllOrigins[i].kind = "trade"
                 /\ AllOrigins[i].product = product
                 /\ AllOrigins[i].at = k
                 /\ (AllFills[i].buyer = SUBMISSION) = buys
              THEN AllFills[i].quantity ELSE 0])

CapacityPerSide ==
    /\ \A e \in 1..Len(market_trades) :
         \A k \in 1..Len(market_trades[e].trades) :
            LET market_trade == market_trades[e].trades[k]
                quantity == OriginalTrades(timestamp, market_trades[e].product)[k].quantity
            IN  /\ market_trade.trade.quantity = quantity
                /\ market_trade.sell_quantity >= 0
                /\ market_trade.buy_quantity >= 0
                /\ FilledAgainst(market_trades[e].product, k, TRUE) =
                     quantity - market_trade.sell_quantity
                /\ FilledAgainst(market_trades[e].product, k, FALSE) =
                     quantity - market_trade.buy_quantity
    /\ (/\ timestamp = 0
        /\ Len(market_trades) > 0
        /\ "STARFRUIT" \in DOMAIN requested
        /\ Len(requested["STARFRUIT"]) = 2
        /\ requested["STARFRUIT"][1] = Order("STARFRUIT", 12, -4)
        /\ ~disable_trades_matching) =>
          /\ (pc = "return" /\ order_i = 1) =>
                /\ trades = <<Trade("STARFRUIT", 12, 4, "", SUBMISSION, 0)>>
                /\ ProductMarketTrades[2].trade.quantity = 10
                /\ ProductMarketTrades[2].buy_quantity = 6
                /\ ProductMarketTrades[2].sell_quantity = 10
          /\ (/\ pc = "return" /\ order_i = 2
              /\ requested["STARFRUIT"][2] = Order("STARFRUIT", 12, -8)) =>
                /\ trades = <<Trade("STARFRUIT", 12, 6, "", SUBMISSION, 0)>>
                /\ order.quantity = -2
                /\ ProductMarketTrades[2].buy_quantity = 0
                /\ ProductMarketTrades[2].sell_quantity = 10

\* the sell of 4 at 12 has returned: 6 left for sells, 10 for buys
SoldFourOfTen ==
    /\ pc = "return" /\ order_i = 1
    /\ Product = "STARFRUIT"
    /\ requested[Product][1] = Order("STARFRUIT", 12, -4)
    /\ Len(ProductMarketTrades) = 2
    /\ ProductMarketTrades[2].buy_quantity = 6
    /\ ProductMarketTrades[2].sell_quantity = 10

(***************************************************************************)
(* C9.  The step that ends a tick's matching adds to the trade log, for    *)
(* every market trade of the tick, taken product by product as the trade   *)
(* data of the tick lists them, the trade with its price, buyer, seller    *)
(* and timestamp and with the smaller of its two counters as quantity, if  *)
(* that quantity is over 0, and nothing for the trade if it is 0.          *)
(***************************************************************************)
RECURSIVE Survivors(_, _)
\* the trades that are left of a list of market trades, from place k on
Survivors(L, k) ==
    IF k > Len(L) THEN <<>>
    ELSE LET left == IF L[k].buy_quantity <= L[k].sell_quantity
                     THEN L[k].buy_quantity ELSE L[k].sell_quantity
         IN  (IF left > 0
              THEN << [timestamp |-> L[k].trade.timestamp,
                       symbol |-> L[k].trade.symbol,
                       price |-> L[k].trade.price,
                       quantity |-> left,
                       buyer |-> L[k].trade.buyer,
                       seller |-> L[k].trade.seller] >>
              ELSE <<>>) \o Survivors(L, k + 1)

RECURSIVE SurvivorsOfAll(_, _)
\* the same over the products' lists, from entry e on
SurvivorsOfAll(entries, e) ==
    IF e > Len(entries) THEN <<>>
    ELSE Survivors(entries[e].trades, 1) \o SurvivorsOfAll(entries, e + 1)

\* the number of market trades in the products' lists
CountAll(entries) == SumSeq([e \in 1..Len(entries) |-> Len(entries[e].trades)])

SurvivingTradesEmitted ==
    [][(pc = "product" /\ pc' = "loop") =>
          /\ CountAll(market_trades) =
               Len(SelectSeq(FileTrades, LAMBDA t : t.timestamp = timestamp))
          /\ \A e \in 1..Len(market_trades) :
               \A k \in 1..Len(market_trades[e].trades) :
                  market_trades[e].trades[k].trade =
                     OriginalTrades(timestamp, market_trades[e].product)[k]
          /\ Len(result_trades') >= Len(result_trades)
          /\ SubSeq(result_trades', 1, Len(result_trades)) = result_trades
          /\ From(result_trades', Len(result_trades)) = SurvivorsOfAll(market_trades, 1)
      ]_vars

\* the first tick is over after a buy of 20 at 12: Al's trade is used up
\* and not in the log, the trade of 10 at 12 is in the log with 3, the
\* AMETHYSTS trade as it was
OneTradeGoneOneCut ==
    /\ pc = "loop" /\ tick = 1
    /\ Len(result_trades) >= 2
    /\ result_trades[Len(result_trades) - 1] = Trade("STARFRUIT", 12, 3, "", "", 0)
    /\ result_trades[Len(result_trades)] = Trade("AMETHYSTS", 9, 4, "", "", 0)
    /\ \A i \in 1..Len(result_trades) : result_trades[i].buyer # "Bob"

(***************************************************************************)
(* C10.  The order of result.trades.                                       *)
(***************************************************************************)
\* book fills, then fills against market trades, then the market trades
\* that are left
PhaseRank(kind) == CASE kind = "book" -> 1 [] kind = "trade" -> 2 [] kind = "market" -> 3

\* the place in the trade file of the first trade of a tick with a symbol
FirstInFile(ts, symbol) ==
    CHOOSE i \in 1..Len(FileTrades) :
        /\ FileTrades[i].timestamp = ts /\ FileTrades[i].symbol = symbol
        /\ \A j \in 1..(i - 1) :
             ~(FileTrades[j].timestamp = ts /\ FileTrades[j].symbol = symbol)

\* the origins agree with the entries they stand for
OriginsMatchLog ==
    /\ Len(h_result_trades) = Len(result_trades)
    /\ \A i \in 1..Len(result_trades) :
         /\ h_result_trades[i].timestamp = result_trades[i].timestamp
         /\ (h_result_trades[i].kind = "market") = ~IsFill(result_trades[i])
         /\ h_result_trades[i].kind = "market" =>
              h_result_trades[i].product = result_trades[i].symbol

\* C10 as stated: the trade log is ordered by timestamp, within a tick by
\* product in lexicographic order, and within a product by phase: fills from
\* the book, fills against market trades, market trades that are left.
LogOrderedByProductThenPhase ==
    /\ OriginsMatchLog
    /\ \A i, j \in 1..Len(result_trades) :
         i < j =>
            LET a == h_result_trades[i]
                b == h_result_trades[j]
            IN  /\ a.timestamp <= b.timestamp
                /\ a.timestamp = b.timestamp =>
                     /\ SymbolRank[a.product] <= SymbolRank[b.product]
                     /\ a.product = b.product => PhaseRank(a.kind) <= PhaseRank(b.kind)

\* C10, amended: the trade log is ordered by timestamp.  Within a tick the
\* strategy's fills come first, ordered by the product under whose key the
\* order was returned (lexicographic), then by the order's place in that
\* product's list, then fills from the book before fills against market
\* trades, the latter in the order of the market trades.  The market trades
\* that are left come after all fills of the tick, product by product in
\* the order in which the products first appear in the tick's trade data,
\* and within a product in the order of the data.
LogOrderedFillsThenMarket ==
    /\ OriginsMatchLog
    /\ \A i, j \in 1..Len(result_trades) :
         i < j =>
            LET a == h_result_trades[i]
                b == h_result_trades[j]
            IN  /\ a.timestamp <= b.timestamp
                /\ a.timestamp = b.timestamp =>
                     /\ a.kind = "market" => b.kind = "market"
                     /\ (a.kind # "market" /\ b.kind # "market") =>
                          /\ SymbolRank[a.product] <= SymbolRank[b.product]
                          /\ a.product = b.product => a.order_i <= b.order_i
                          /\ (a.product = b.product /\ a.order_i = b.order_i) =>
                               /\ PhaseRank(a.kind) <= PhaseRank(b.kind)
                               /\ (a.kind = "trade" /\ b.kind = "trade") => a.at < b.at
                     /\ (a.kind = "market" /\ b.kind = "market") =>
                          /\ FirstInFile(a.timestamp, a.product) <=
                               FirstInFile(b.timestamp, b.product)
                          /\ a.product = b.product => a.at < b.at

\* a tick's log with fills of both products, from the book and against
\* market trades, and with market trades of both products left, STARFRUIT's
\* before AMETHYSTS'
BothProductsInLog ==
    /\ Len(result_trades) = 7
    /\ [i \in 1..7 |-> h_result_trades[i].kind] =
         <<"book", "book", "book", "trade", "trade", "market", "market">>
    /\ [i \in 1..7 |-> result_trades[i].symbol] =
         <<"AMETHYSTS", "STARFRUIT", "STARFRUIT", "STARFRUIT", "STARFRUIT",
           "STARFRUIT", "AMETHYSTS">>

(***************************************************************************)
(* C11.  Every product's position is the volume of the strategy's buy      *)
(* fills of the product less the volume of its sell fills, and its         *)
(* realized P&L is the price times volume of its sell fills less that of   *)
(* its buy fills, over the fills made so far.  At the end of a tick these  *)
(* are the fills in the trade log.                                         *)
(***************************************************************************)
\* the volume, or the price times volume, of the fills of one side for a
\* symbol in a log
FillSum(log, symbol, buys, priced) ==
    SumSeq([i \in 1..Len(log) |->
              IF /\ log[i].symbol = symbol
                 /\ IsFill(log[i])
                 /\ (log[i].buyer = SUBMISSION) = buys
              THEN (IF priced THEN log[i].price * log[i].quantity ELSE log[i].quantity)
              ELSE 0])

PositionAndPnlFromFills ==
    /\ \A p \in Products :
         /\ Get(position, p, 0) =
              FillSum(AllFills, p, TRUE, FALSE) - FillSum(AllFills, p, FALSE, FALSE)
         /\ profit_loss[p] =
              FillSum(AllFills, p, FALSE, TRUE) - FillSum(AllFills, p, TRUE, TRUE)
    /\ DOMAIN position \subseteq Products
    /\ pc \in {"loop", "done"} =>
         \A p \in Products :
            /\ Get(position, p, 0) =
                 FillSum(result_trades, p, TRUE, FALSE) -
                 FillSum(result_trades, p, FALSE, FALSE)
            /\ profit_loss[p] =
                 FillSum(result_trades, p, FALSE, TRUE) -
                 FillSum(result_trades, p, TRUE, TRUE)

\* a tick has ended with buy fills and sell fills of STARFRUIT in the log
\* and a position that is not 0
BoughtAndSoldStarfruit ==
    /\ pc = "loop" /\ tick >= 1
    /\ FillSum(result_trades, "STARFRUIT", TRUE, FALSE) > 0
    /\ FillSum(result_trades, "STARFRUIT", FALSE, FALSE) > 0
    /\ Get(position, "STARFRUIT", 0) # 0

(***************************************************************************)
(* C12.  The profit and loss of the activity row of a tick and a product   *)
(* is the realized P&L of the product's fills of the ticks before, plus    *)
(* the position those fills gave times the product's mid price of the      *)
(* tick.  The fills of the tick itself are not in it: once appended, the   *)
(* row stays as it is.  (Prices and P&L of a row are held in halves.)      *)
(***************************************************************************)
\* the entries of a log with a timestamp under ts
Before(log, ts) == SelectSeq(log, LAMBDA t : t.timestamp < ts)

\* the row of the prices file for a timestamp and a product
FilePriceRow(ts, product) ==
    LET i == CHOOSE k \in 1..Len(FilePriceRows) :
                /\ FilePriceRows[k].timestamp = ts
                /\ FilePriceRows[k].product = product
    IN  FilePriceRows[i]

ActivityPnlBeforeMatching ==
    \A i \in 1..Len(activity_logs) :
        LET row == activity_logs[i]
            earlier == Before(AllFills, row.timestamp)
            realized == FillSum(earlier, row.product, FALSE, TRUE) -
                        FillSum(earlier, row.product, TRUE, TRUE)
            held == FillSum(earlier, row.product, TRUE, FALSE) -
                    FillSum(earlier, row.product, FALSE, FALSE)
        IN  /\ row.mid_price2 = FilePriceRow(row.timestamp, row.product).mid_price2
            /\ row.profit_loss2 = 2 * realized + held * row.mid_price2

\* the second tick is over: STARFRUIT's row of the tick shows -83 realized
\* and 8 held at a mid price of 10, and the tick's own fills are in the log
SecondTickRowAfterBuy ==
    /\ pc = "loop" /\ tick = 2
    /\ \E i \in 1..Len(activity_logs) :
         /\ activity_logs[i].timestamp = 100
         /\ activity_logs[i].product = "STARFRUIT"
         /\ activity_logs[i].profit_loss2 = 2 * (-83) + 8 * 20
    /\ \E i \in 1..Len(result_trades) :
         /\ result_trades[i].timestamp = 100
         /\ result_trades[i].symbol = "STARFRUIT"
         /\ IsFill(result_trades[i])

(***************************************************************************)
(* C13.  The order of the steps of a tick.                                 *)
(***************************************************************************)
\* result.sandbox_logs has a row of the timestamp
HasSandboxRow(ts) == \E i \in 1..Len(sandbox_logs) : sandbox_logs[i].timestamp = ts

\* result.activity_logs has a row of the timestamp for every product
HasActivityRows(ts) ==
    \A p \in Products :
        \E i \in 1..Len(activity_logs) :
            activity_logs[i].timestamp = ts /\ activity_logs[i].product = p

\* result.activity_logs has no row of the timestamp
NoActivityRows(ts) == \A i \in 1..Len(activity_logs) : activity_logs[i].timestamp # ts

\* no trade of the timestamp is made or logged
NoTrades(ts) == \A i \in 1..Len(AllFills) : AllFills[i].timestamp # ts

\* the books as the price rows of the timestamp give them
BuiltBooks(ts) == [p \in Products |-> OrderDepthOf(FilePriceRow(ts, p))]

\* the step is part of match_orders
Matches ==
    \/ AllFills' # AllFills
    \/ position' # position
    \/ profit_loss' # profit_loss
    \/ (order_depths' # order_depths /\ pc # "loop")

\* what C13 and its amended form share: the strategy is called on the
\* state built for the timestamp, before anything of the tick is logged; the
\* activity rows are emitted after the call and before limits are enforced;
\* limits are enforced before the first step of the matching
StepsUpToMatching ==
    /\ pc = "run" =>
         /\ order_depths = BuiltBooks(timestamp)
         /\ NoActivityRows(timestamp) /\ NoTrades(timestamp)
    /\ pc' = "run" => pc = "loop"
    /\ activity_logs' # activity_logs =>
         /\ pc \notin {"loop", "run"}
         /\ NoActivityRows(timestamp) /\ NoTrades(timestamp)
         /\ Len(activity_logs') = Len(activity_logs) + Cardinality(Products)
         /\ SubSeq(activity_logs', 1, Len(activity_logs)) = activity_logs
         /\ pc' = "enforce_limits"
    /\ pc' = "enforce_limits" => activity_logs' # activity_logs
    /\ pc = "enforce_limits" =>
         /\ HasActivityRows(timestamp) /\ NoTrades(timestamp)
         /\ pc' \in {"match_orders", "KeyError"}
         /\ ~Matches
    /\ pc' = "match_orders" => pc = "enforce_limits"
    /\ Matches =>
         /\ HasActivityRows(timestamp)
         /\ pc \notin {"loop", "run", "sandbox_row", "activity_logs", "enforce_limits"}

SnapshotTimestamps == {FilePriceRows[i].timestamp : i \in 1..Len(FilePriceRows)}

\* every tick is taken once and in ascending order, as far as the run is
TicksOnceAscending ==
    /\ \A i \in 1..Len(sandbox_logs) :
         /\ sandbox_logs[i].timestamp \in SnapshotTimestamps
         /\ Cardinality({ts \in SnapshotTimestamps : ts < sandbox_logs[i].timestamp}) = i - 1
    /\ \A i, j \in 1..Len(activity_logs) :
         i < j =>
            /\ activity_logs[i].timestamp <= activity_logs[j].timestamp
            /\ ~(/\ activity_logs[i].timestamp = activity_logs[j].timestamp
                 /\ activity_logs[i].product = activity_logs[j].product)
    /\ \A i \in 1..Len(activity_logs) :
         /\ HasSandboxRow(activity_logs[i].timestamp)
         /\ activity_logs[i].product \in Products
    /\ \A i \in 1..(Len(sandbox_logs) - 1) : HasActivityRows(sandbox_logs[i].timestamp)
    /\ pc \in {"loop", "done"} =>
         /\ Len(sandbox_logs) = tick
         /\ Len(activity_logs) = tick * Cardinality(Products)

\* the run has returned its result, every tick in it
Done ==
    /\ pc = "done"
    /\ Len(sandbox_logs) = Cardinality(SnapshotTimestamps)
    /\ Len(activity_logs) = Cardinality(SnapshotTimestamps) * Cardinality(Products)

RunTakesEveryTickAndReturns == []TicksOnceAscending /\ <>[]Done


(***************************************************************************)
(* C15.  When the strategy is called at a tick after the first, the own    *)
(* trades the state shows for a product are the fills of that product at   *)
(* the tick just before and no others, and the market trades it shows for  *)
(* a product are the market trades of that product at the tick just        *)
(* before and no others; a product without such trades at the tick just    *)
(* before shows none.                                                      *)
(***************************************************************************)
\* the trades the log has of a symbol at a timestamp, the strategy's or the
\* market's
LoggedTrades(ts, symbol, own) ==
    SelectSeq(result_trades,
              LAMBDA t : t.timestamp = ts /\ t.symbol = symbol /\ (IsFill(t) <=> own))

\* the timestamp of the tick before the one at work
PrecedingTimestamp == TickTimestamp(tick)

\* the symbols the state can show trades of
ShownSymbols == Products \cup DOMAIN own_trades \cup DOMAIN state_market_trades

TradesOfPrecedingTick ==
    (pc = "run" /\ tick >= 1) =>
        \A p \in ShownSymbols :
            /\ Get(own_trades, p, <<>>) = LoggedTrades(PrecedingTimestamp, p, TRUE)
            /\ Get(state_market_trades, p, <<>>) = LoggedTrades(PrecedingTimestamp, p, FALSE)

\* the strategy is called at the third tick and is shown the fill of the
\* first as its own trade, having had no fill at the second
StaleOwnTradeShown ==
    /\ pc = "run"
    /\ timestamp = 200
    /\ LoggedTrades(100, "STARFRUIT", TRUE) = <<>>
    /\ Get(own_trades, "STARFRUIT", <<>>) # <<>>
    /\ Get(own_trades, "STARFRUIT", <<>>) = LoggedTrades(0, "STARFRUIT", TRUE)


(***************************************************************************)
(* C16.  From the call of the strategy to the start of matching the order  *)
(* depths of a tick are the ones built from the tick's own price rows,     *)
(* whatever was filled or left unfilled at earlier ticks, and while the    *)
(* tick's orders are matched a book holds no price and no volume beyond    *)
(* those rows.                                                             *)
(***************************************************************************)
\* every price of a side of a book is a price of the other book's side, with
\* no more volume
WithinSide(side, built) ==
    /\ DOMAIN side \subseteq DOMAIN built
    /\ \A price \in DOMAIN side : Abs(side[price]) <= Abs(built[price])

BookFromTickRowsOnly ==
    /\ pc \in {"run", "sandbox_row", "activity_logs", "enforce_limits", "match_orders"} =>
         order_depths = BuiltBooks(timestamp)
    /\ pc \notin {"loop", "done"} =>
         /\ DOMAIN order_depths = Products
         /\ \A p \in Products :
              /\ WithinSide(order_depths[p].buy_orders, BuiltBooks(timestamp)[p].buy_orders)
              /\ WithinSide(order_depths[p].sell_orders, BuiltBooks(timestamp)[p].sell_orders)

\* the strategy is called at the third tick with the asks of the first tick's
\* rows back in the book, after it bought from them at the first tick and
\* sold less than it asked for at the second
BookBackAtThirdTick ==
    /\ pc = "run"
    /\ timestamp = 200
    /\ \E i \in 1..Len(result_trades) :
         /\ result_trades[i].timestamp = 0
         /\ result_trades[i].buyer = SUBMISSION
         /\ result_trades[i].price = 10
         /\ result_trades[i].quantity = 5
    /\ FillSum(LoggedTrades(100, "STARFRUIT", TRUE), "STARFRUIT", FALSE, FALSE) = 12
    /\ order_depths["STARFRUIT"].sell_orders = Put(Put(Put(<<>>, 13, -15), 11, -5), 10, -5)
    /\ order_depths["STARFRUIT"].buy_orders = Put(Put(<<>>, 7, 5), 8, 5)


(***************************************************************************)
(* C17.  A call merge_results(a, b) of __main__.py with timestamp merging  *)
(* returns a's sandbox, activity and trade rows as they are and first, and *)
(* after them one row for every row of b, in b's order, with the timestamp *)
(* of b's row + the timestamp of a's last activity row + 100.              *)
(***************************************************************************)
\* m's rows of one kind are a's rows and then b's, each of b's moved by a's
\* last activity timestamp + 100
AppendedMoved(a_rows, b_rows, m_rows, a) ==
    /\ Len(m_rows) = Len(a_rows) + Len(b_rows)
    /\ \A i \in 1..Len(a_rows) : m_rows[i] = a_rows[i]
    /\ \A i \in 1..Len(b_rows) :
         m_rows[Len(a_rows) + i].timestamp =
             b_rows[i].timestamp + a.activity_logs[Len(a.activity_logs)].timestamp + 100

\* m's rows after a's are b's rows in b's order: what is not timestamp, text
\* or profit and loss is b's
SameRowsAs(b, m, a) ==
    /\ \A i \in 1..Len(b.sandbox_logs) :
         m.sandbox_logs[Len(a.sandbox_logs) + i].sandbox_log = b.sandbox_logs[i].sandbox_log
    /\ \A i \in 1..Len(b.activity_logs) :
         /\ m.activity_logs[Len(a.activity_logs) + i].product = b.activity_logs[i].product
         /\ m.activity_logs[Len(a.activity_logs) + i].day = b.activity_logs[i].day
    /\ \A i \in 1..Len(b.trades) :
         [m.trades[Len(a.trades) + i] EXCEPT !.timestamp = 0] =
             [b.trades[i] EXCEPT !.timestamp = 0]

\* m is what the claim says of merge_results(a, b)
MergedWithTimestamps(a, b, m) ==
    /\ AppendedMoved(a.sandbox_logs, b.sandbox_logs, m.sandbox_logs, a)
    /\ AppendedMoved(a.activity_logs, b.activity_logs, m.activity_logs, a)
    /\ AppendedMoved(a.trades, b.trades, m.trades, a)
    /\ SameRowsAs(b, m, a)

MergeAppendsShifted ==
    [][(program = "__main__" /\ merge_timestamps) =>
          /\ pc' = "reduce" \/ pc' = "written"
          /\ merged_results' # merged_results =>
               MergedWithTimestamps(merged_results.result,
                                    results[merged_results.n + 1],
                                    merged_results'.result)
          /\ grouped_results' # grouped_results =>
               MergedWithTimestamps(results[NumDays - grouped_results.n],
                                    grouped_results.result,
                                    grouped_results'.result)
      ]_vars

\* the two-tick day and then the ORCHIDS day: the ORCHIDS trade of timestamp
\* 100 is in the merged trades at 300, after the first day's two
OrchidsTradeAtThreeHundred ==
    /\ program = "__main__"
    /\ merge_timestamps
    /\ merged_results.n = 2
    /\ results[1] = FirstDay
    /\ results[2] = OrchidsDay
    /\ Len(merged_results.result.trades) = 3
    /\ merged_results.result.trades[3] = Trade("ORCHIDS", 50, 2, "", "", 300)
    /\ merged_results.result.sandbox_logs[4].timestamp = 300


(***************************************************************************)
(* C18.  Three day results merged as merge_results(merge_results(a, b), c) *)
(* and as merge_results(a, merge_results(b, c)) give the same rows with    *)
(* the same timestamps, and in the merged result every row that came from  *)
(* a later day has a timestamp greater than every row that came from an    *)
(* earlier day.                                                            *)
(***************************************************************************)
\* the three lists of a result
RowKinds == {"sandbox_logs", "activity_logs", "trades"}

\* both groupings have merged every day
BothMerged ==
    /\ program = "__main__"
    /\ merged_results.n = NumDays
    /\ grouped_results.n = NumDays

\* the number of rows of a kind that the days before day k have
RowsBefore(k, kind) == SumSeq([j \in 1..(k - 1) |-> Len(results0[j][kind])])

\* the timestamps that the rows of day k have in a merged result
DayTimestamps(m, k) ==
    UNION {{m[kind][RowsBefore(k, kind) + i].timestamp : i \in 1..Len(results0[k][kind])} :
           kind \in RowKinds}

\* later days' rows have greater timestamps than earlier days' rows
LaterDaysLater(m) ==
    \A j, k \in 1..NumDays :
        j < k => \A t \in DayTimestamps(m, j), u \in DayTimestamps(m, k) : t < u

\* the timestamps of a list of rows
Timestamps(rows) == [i \in 1..Len(rows) |-> rows[i].timestamp]

\* C18 as stated: the same rows, and later days later
GroupingsGiveSameRows ==
    BothMerged =>
        /\ merged_results.result = grouped_results.result
        /\ LaterDaysLater(merged_results.result)

\* what holds: with timestamp merging the two groupings have the same rows
\* in the same places with the same timestamps, the same in all but the
\* text of lambda_log and the profit and loss, and later days are later
GroupingsGiveSameTimestamps ==
    (BothMerged /\ merge_timestamps) =>
        LET l == merged_results.result
            r == grouped_results.result
        IN  /\ \A kind \in RowKinds : Timestamps(l[kind]) = Timestamps(r[kind])
            /\ l.trades = r.trades
            /\ \A i \in 1..Len(l.sandbox_logs) :
                 l.sandbox_logs[i].sandbox_log = r.sandbox_logs[i].sandbox_log
            /\ \A i \in 1..Len(l.activity_logs) :
                 [l.activity_logs[i] EXCEPT !.profit_loss2 = 0] =
                     [r.activity_logs[i] EXCEPT !.profit_loss2 = 0]
            /\ ~merge_profit_loss => l.activity_logs = r.activity_logs
            /\ LaterDaysLater(l)
            /\ LaterDaysLater(r)

\* the two-tick day, the ORCHIDS day and the one-tick day merged both ways
\* with profit and loss carried over: the last day's rows are at 400 in
\* both, and its AMETHYSTS row has 2 in one and 2 + 4 in the other
ThreeDaysBothWays ==
    /\ BothMerged
    /\ merge_timestamps
    /\ merge_profit_loss
    /\ results = << FirstDay, OrchidsDay, ShortDay >>
    /\ Timestamps(merged_results.result.activity_logs) = <<0, 0, 100, 100, 200, 300, 400, 400>>
    /\ Timestamps(grouped_results.result.activity_logs) = <<0, 0, 100, 100, 200, 300, 400, 400>>
    /\ merged_results.result.activity_logs[7].profit_loss2 = 2
    /\ grouped_results.result.activity_logs[7].profit_loss2 = 6


(***************************************************************************)
(* C19.  merge_results leaves its arguments as they were: whatever has     *)
(* been merged so far, every day's result in memory is what run_backtest   *)
(* returned, and merging the days' results once more gives the merged      *)
(* result again.                                                           *)
(***************************************************************************)
\* merge_results of the program that runs
MergeOf(a, b) ==
    IF program = "main" THEN main_merge_results(a, b, merge_profit_loss)
    ELSE merge_results(a, b, merge_profit_loss, merge_timestamps)

RECURSIVE Reduce(_, _)
\* reduce(merge_results, rs) over the first k results
Reduce(rs, k) == IF k = 1 THEN rs[1] ELSE MergeOf(Reduce(rs, k - 1), rs[k])

MergeLeavesInputs ==
    /\ results = results0
    /\ (pc \in {"reduce", "written"} /\ merged_results.n = NumDays) =>
           Reduce(results, NumDays) = merged_results.result

\* main.py has merged the two-tick day and the ORCHIDS day: the ORCHIDS
\* day's own sandbox rows and trade are now at 200 and 300
SecondDayMoved ==
    /\ program = "main"
    /\ merged_results.n = 2
    /\ results0[1] = FirstDay
    /\ results0[2] = OrchidsDay
    /\ Timestamps(results[2].sandbox_logs) = <<200, 300>>
    /\ Timestamps(results[2].trades) = <<300>>
    /\ Timestamps(results[2].activity_logs) = <<0, 100>>


(***************************************************************************)
(* C20.  A call merge_results(a, b) of __main__.py with merge_profit_loss  *)
(* returns, for every activity row of b, a row whose profit and loss is    *)
(* b's + the profit and loss of the same product at a's last timestamp     *)
(* (0 when a has no such row there); without merge_profit_loss the profit  *)
(* and loss of the row is b's.  The call returns in both cases.            *)
(***************************************************************************)
\* the places of product's rows among a's rows of a's last timestamp
LastTickRows(a, product) ==
    {i \in 1..Len(a.activity_logs) :
        /\ a.activity_logs[i].timestamp = a.activity_logs[Len(a.activity_logs)].timestamp
        /\ a.activity_logs[i].product = product}

\* the profit and loss a's last tick has for a product, 0 when it has none
LastTickProfitLoss(a, product) ==
    IF LastTickRows(a, product) = {} THEN 0
    ELSE a.activity_logs[CHOOSE i \in LastTickRows(a, product) :
                            \A j \in LastTickRows(a, product) : i <= j].profit_loss2

\* m's activity rows after a's have b's profit and loss, carried on from a's
\* last tick when that was asked for
ProfitLossCarried(a, b, m) ==
    /\ Len(m.activity_logs) = Len(a.activity_logs) + Len(b.activity_logs)
    /\ \A i \in 1..Len(b.activity_logs) :
         m.activity_logs[Len(a.activity_logs) + i].profit_loss2 =
             b.activity_logs[i].profit_loss2 +
             (IF merge_profit_loss THEN LastTickProfitLoss(a, b.activity_logs[i].product)
              ELSE 0)

MergeCarriesProfitLoss ==
    [][program = "__main__" =>
          /\ pc' \in {"reduce", "written"}
          /\ merged_results' # merged_results =>
               ProfitLossCarried(merged_results.result, results[merged_results.n + 1],
                                 merged_results'.result)
          /\ grouped_results' # grouped_results =>
               ProfitLossCarried(results[NumDays - grouped_results.n],
                                 grouped_results.result, grouped_results'.result)
      ]_vars

\* merge_results was called with merge_profit_loss and without
\* merge_timestamps and has raised
MergeRaisedUnboundLocal ==
    /\ pc = "UnboundLocalError"
    /\ program = "__main__"
    /\ merge_profit_loss
    /\ ~merge_timestamps
    /\ merged_results.n = 1

(***************************************************************************)
(* C21: a day run twice with the same strategy gives the same result       *)
(***************************************************************************)
\* s is the beginning of t
IsPrefix(s, t) == Len(s) <= Len(t) /\ s = SubSeq(t, 1, Len(s))

\* the result run_backtest returns
RunResult == BacktestResult(0, 0, sandbox_logs, activity_logs, result_trades)

ReferredProducts ==
    LET entries == Get(data_trades, timestamp, <<>>)
    IN  {entries[e].product : e \in 1..Len(entries)}
          \cup DOMAIN requested
          \cup UNION {{requested[k][i].symbol : i \in 1..Len(requested[k])} :
                        k \in DOMAIN requested}

\* C22: the run does not get from enforce_limits to match_orders in a tick
\* whose trade data or orders refer to a product that has no entry in LIMITS
NoMatchingWithoutLimit ==
    pc = "match_orders" => \A product \in ReferredProducts : product \in DOMAIN LIMITS

\* the strategy returned orders for PEARLS, which has no limit, at the first
\* tick, and the run went through all ticks and returned without a word in
\* the sandbox log
ReturnedAfterPearlsOrder ==
    /\ pc = "done"
    /\ run_no = 1
    /\ "PEARLS" \in DOMAIN strategy[1].orders
    /\ "PEARLS" \notin DOMAIN LIMITS
    /\ Len(sandbox_logs) = NumTicks
    /\ sandbox_logs[1].sandbox_log = <<>>

(***************************************************************************)
(* C23: merging with a day that has no activity rows                       *)
(***************************************************************************)
\* one of the two results given to merge_results has an empty activity log
EitherEmpty(a, b) == a.activity_logs = <<>> \/ b.activity_logs = <<>>

\* C23: a call of merge_results with a or b having an empty activity log
\* raises an error and returns no merged result, with any of the four
\* settings of merge_profit_loss and merge_timestamps
MergeOfEmptyDayFails ==
    [][/\ (pc = "reduce" /\ merged_results' # merged_results)
            => ~EitherEmpty(merged_results.result, results[merged_results.n + 1])
       /\ (pc = "reduce" /\ grouped_results' # grouped_results)
            => ~EitherEmpty(results[NumDays - grouped_results.n], grouped_results.result)
      ]_vars

\* merge_results has returned a result for a second day without rows, with
\* timestamp merging and without P&L continuity
MergedWithEmptySecondDay ==
    /\ merged_results.n >= 2
    /\ results[1] # EmptyDay
    /\ results[2] = EmptyDay
    /\ merge_timestamps
    /\ ~merge_profit_loss
    /\ merged_results.result = merge_results(results[1], EmptyDay, FALSE, TRUE)
    /\ merged_results.result.activity_logs = results[1].activity_logs

(***************************************************************************)
(* C24: the strategy and the engine's positions                            *)
(***************************************************************************)
\* the position that the fills of a log give a product
FillPosition(log, product) ==
    FillSum(log, product, TRUE, FALSE) - FillSum(log, product, FALSE, FALSE)

\* C24: the position that create_activity_logs, enforce_limits and
\* match_orders work with after the strategy has returned is the one the
\* fills of the earlier ticks give, a batch is rejected exactly when that
\* position and the batch's gross sums leave the limit, and the tick ends
\* with the position its fills lead to: nothing the strategy wrote into the
\* state it was given has a part in it
EngineStateFromFillsOnly ==
    /\ pc \in {"sandbox_row", "activity_logs", "enforce_limits"} =>
         \A p \in Products : Get(position, p, 0) = FillPosition(result_trades, p)
    /\ pc = "match_orders" =>
         \A p \in Products \cap DOMAIN requested :
            Dropped(p) <=> OverLimit(FillPosition(result_trades, p), requested[p], p)
    /\ pc \in {"loop", "done"} =>
         \A p \in Products :
            /\ Get(position, p, 0) = FillPosition(result_trades, p)
            /\ profit_loss[p] =
                 FillSum(result_trades, p, FALSE, TRUE) - FillSum(result_trades, p, TRUE, TRUE)

\* the strategy set its STARFRUIT position to 15 at the first tick and asked
\* to buy 8: the batch was rejected, and the run ended without any fill and
\* with position 15 and an activity row that values it
WrittenPositionUsed ==
    /\ pc = "done"
    /\ strategy[1].writes # <<>>
    /\ sandbox_logs[1].sandbox_log # <<>>
    /\ \A i \in 1..Len(result_trades) : ~IsFill(result_trades[i])
    /\ Get(position, "STARFRUIT", 0) = 15
    /\ \E i \in 1..Len(activity_logs) :
          /\ activity_logs[i].timestamp = 0
          /\ activity_logs[i].product = "STARFRUIT"
          /\ activity_logs[i].profit_loss2 # 0

(***************************************************************************)
(* C25: quantities in the trade log                                        *)
(***************************************************************************)
\* C25: every entry of result.trades, and every fill on its way there, has a
\* quantity of 0 or more, whatever orders the strategy returned
TradeQuantitiesNotNegative ==
    \A i \in 1..Len(AllFills) : AllFills[i].quantity >= 0

\* the log holds a fill of a sell order at a bid level, a fill of a sell
\* order against a market trade, a fill of a buy order and what a fill left
\* of a market trade
AllKindsOfTradesLogged ==
    /\ \E i \in 1..Len(result_trades) :
          result_trades[i].seller = SUBMISSION /\ result_trades[i].buyer = ""
    /\ \E i \in 1..Len(result_trades) :
          result_trades[i].seller = SUBMISSION /\ result_trades[i].buyer = "Cy"
    /\ \E i \in 1..Len(result_trades) : result_trades[i].buyer = SUBMISSION
    /\ \E i \in 1..Len(result_trades) :
          /\ ~IsFill(result_trades[i])
          /\ result_trades[i].buyer = "Cy"
          /\ result_trades[i].quantity < 6

(***************************************************************************)
(* C26: the limit check takes gross sums                                   *)
(***************************************************************************)
\* the sum of the buy quantities of a batch
GrossBuys(batch) ==
    SumSeq([i \in 1..Len(batch) |-> IF batch[i].quantity > 0 THEN batch[i].quantity ELSE 0])

\* the sum of the magnitudes of the sell quantities of a batch
GrossSells(batch) ==
    SumSeq([i \in 1..Len(batch) |-> IF batch[i].quantity < 0 THEN -batch[i].quantity ELSE 0])

\* the position the batch would lead to if all of it were filled
NetAfter(pos, batch) == pos + GrossBuys(batch) - GrossSells(batch)

\* C26: when enforce_limits returns, the batch listed under a product of the
\* day is gone from the dict if position + sum of its buy quantities > limit
\* or position - sum of the magnitudes of its sell quantities < -limit, also
\* when buys and sells together would stay within the limit, and otherwise
\* the whole batch is still there as it was
GrossSumsDecide ==
    [][(pc = "enforce_limits" /\ pc' = "match_orders") =>
          \A p \in Products \cap DOMAIN orders :
             IF \/ Get(position, p, 0) + GrossBuys(orders[p]) > LIMITS[p]
                \/ Get(position, p, 0) - GrossSells(orders[p]) < -LIMITS[p]
             THEN p \notin DOMAIN orders'
             ELSE p \in DOMAIN orders' /\ orders'[p] = orders[p]
      ]_vars

\* a batch with a buy and a sell that would net to a position within the
\* limit has been rejected for its buys, from a position the fills of the
\* tick before gave
NettingBatchRejected ==
    /\ pc = "match_orders"
    /\ \E p \in Products :
          /\ Dropped(p)
          /\ Len(requested[p]) = 2
          /\ requested[p][1].quantity > 0
          /\ requested[p][2].quantity < 0
          /\ Get(position, p, 0) > 0
          /\ Get(position, p, 0) + GrossBuys(requested[p]) > LIMITS[p]
          /\ NetAfter(Get(position, p, 0), requested[p]) <= LIMITS[p]
          /\ NetAfter(Get(position, p, 0), requested[p]) >= -LIMITS[p]

(***************************************************************************)
(* C27: the orders of a product, one after the other                       *)
(***************************************************************************)
\* what the tick's fills so far have taken: from a level of a symbol's book
\* (kind "book", at 0) or from the market trade at place at of a product's
\* list (kind "trade"), by buy orders or by sell orders
TakenSoFar(kind, name, price, at, buys) ==
    SumSeq([i \in 1..Len(AllFills) |->
              IF /\ AllFills[i].timestamp = timestamp
                 /\ AllOrigins[i].kind = kind
                 /\ AllOrigins[i].at = at
                 /\ (AllFills[i].buyer = SUBMISSION) = buys
                 /\ IF kind = "book"
                    THEN AllFills[i].symbol = name /\ AllFills[i].price = price
                    ELSE AllOrigins[i].product = name
              THEN AllFills[i].quantity
              ELSE 0])

\* the book of a product as the tick's price row gives it
SnapshotBook(product) == OrderDepthOf(DataPrices[timestamp][product])

\* C27: the orders listed under a product are matched one after the other as
\* the strategy listed them, every one against the book and the market
\* trades as the orders before it left them: at any moment a level holds its
\* snapshot volume less all that the tick's orders have taken from it, a
\* market trade its quantity less all that they have taken from it, the
\* fills of a list come in the order of the list, and an order that returns
\* with a remainder leaves no level behind that crosses its price
OrdersMatchedInListedOrder ==
    pc \notin {"loop", "done"} =>
        /\ Len(AllOrigins) = Len(AllFills)
        /\ \A p \in Products :
             /\ \A x \in DOMAIN SnapshotBook(p).sell_orders :
                  -Get(order_depths[p].sell_orders, x, 0) =
                      -SnapshotBook(p).sell_orders[x] - TakenSoFar("book", p, x, 0, TRUE)
             /\ \A x \in DOMAIN SnapshotBook(p).buy_orders :
                  Get(order_depths[p].buy_orders, x, 0) =
                      SnapshotBook(p).buy_orders[x] - TakenSoFar("book", p, x, 0, FALSE)
        /\ \A e \in 1..Len(market_trades) : \A k \in 1..Len(market_trades[e].trades) :
             LET market_trade == market_trades[e].trades[k]
             IN  /\ market_trade.sell_quantity =
                      market_trade.trade.quantity -
                      TakenSoFar("trade", market_trades[e].product, 0, k, TRUE)
                 /\ market_trade.buy_quantity =
                      market_trade.trade.quantity -
                      TakenSoFar("trade", market_trades[e].product, 0, k, FALSE)
        /\ \A i, j \in 1..Len(PendingOrigins) :
             i < j => PendingOrigins[i].order_i <= PendingOrigins[j].order_i
        /\ InMatchOrder =>
             /\ order.symbol = requested[Product][order_i].symbol
             /\ order.price = requested[Product][order_i].price
             /\ \A i \in 1..Len(PendingOrigins) : PendingOrigins[i].order_i <= order_i
             /\ \A i \in 1..Len(h_new_trades) : h_new_trades[i].order_i < order_i
        /\ pc = "return" =>
             /\ order.quantity > 0 =>
                  \A x \in DOMAIN order_depths[order.symbol].sell_orders : x > order.price
             /\ order.quantity < 0 =>
                  \A x \in DOMAIN order_depths[order.symbol].buy_orders : x < order.price

\* the second order of a list has returned with a fill from what the first
\* left of an ask level, after the first had taken a part of that level
SecondOrderTookTheRest ==
    /\ pc = "return"
    /\ order_i = 2
    /\ \E i \in 1..Len(h_new_trades) : \E j \in 1..Len(h_trades) :
          /\ h_new_trades[i].kind = "book"
          /\ h_trades[j].kind = "book"
          /\ new_trades[i].price = trades[j].price
          /\ new_trades[i].buyer = SUBMISSION
          /\ trades[j].buyer = SUBMISSION
          /\ new_trades[i].quantity + trades[j].quantity =
               -SnapshotBook(order.symbol).sell_orders[trades[j].price]

(***************************************************************************)
(* C28: an order with quantity zero                                        *)
(***************************************************************************)
\* a batch without its orders for nothing
NonZero(batch) == SelectSeq(batch, LAMBDA o : o.quantity # 0)

\* C28: match_order returns at once for an order of quantity 0, with no
\* trade, and leaves positions, realized P&L, the books and the market
\* trades' capacities as they are; no fill in the log comes from such an
\* order; and enforce_limits decides on a batch as it would without its
\* orders of quantity 0
ZeroOrderIsNoOp ==
    [][/\ (/\ pc = "order"
           /\ order_i <= Len(Get(orders, Product, <<>>))
           /\ requested[Product][order_i].quantity = 0)
            => /\ pc' = "return"
               /\ trades' = <<>>
               /\ UNCHANGED << position, profit_loss, order_depths, market_trades,
                               new_trades, result_trades >>
       /\ (pc = "return" /\ requested[Product][order_i].quantity = 0)
            => /\ pc' = "order"
               /\ order_i' = order_i + 1
               /\ UNCHANGED << position, profit_loss, order_depths, market_trades,
                               new_trades, result_trades >>
       /\ (InMatchOrder \/ pc = "order")
            => \A i \in 1..Len(PendingOrigins) :
                  requested[Product][PendingOrigins[i].order_i].quantity # 0
       /\ (pc = "enforce_limits" /\ pc' = "match_orders")
            => \A p \in Products \cap DOMAIN orders :
                  (p \notin DOMAIN orders') <=>
                     \/ Get(position, p, 0) + GrossBuys(NonZero(orders[p])) > LIMITS[p]
                     \/ Get(position, p, 0) - GrossSells(NonZero(orders[p])) < -LIMITS[p]
      ]_vars

\* an order of quantity 0 listed between a buy order that was filled and a
\* sell order has returned, and the sell order is next
ZeroOrderPassed ==
    /\ pc = "order"
    /\ order_i = 3
    /\ Len(requested[Product]) = 3
    /\ requested[Product][2].quantity = 0
    /\ new_trades # <<>>
    /\ \A i \in 1..Len(h_new_trades) : h_new_trades[i].order_i = 1

(***************************************************************************)
(* C29: the string carried from tick to tick                               *)
(***************************************************************************)
\* C29: when trader.run is called, state.traderData is "" at the first tick
\* and at a later tick the string the strategy returned at the tick before;
\* what the strategy returned is kept as it is through the rest of the tick
CarriedStringIsLastReturned ==
    /\ pc = "run" =>
         state_traderData = (IF tick = 0 THEN "" ELSE strategy[tick].trader_data)
    /\ pc \notin {"loop", "run", "done"} => trader_data = strategy[tick + 1].trader_data
    /\ (pc \in {"loop", "done"} /\ tick > 0) => trader_data = strategy[tick].trader_data

\* at the third tick the strategy is given the string it returned at the
\* second, which is not the one it returned at the first
SecondStringGivenBack ==
    /\ pc = "run"
    /\ tick = 2
    /\ strategy[1].trader_data = "a"
    /\ strategy[2].trader_data = "b"
    /\ state_traderData = "b"

(***************************************************************************)
(* C30: who is named in a fill                                             *)
(***************************************************************************)
\* the trade of the file that an entry of the log with this origin was
\* matched against
MatchedTrade(origin) == OriginalTrades(origin.timestamp, origin.product)[origin.at]

\* C30: a fill that match_buy_order appends names SUBMISSION as buyer and,
\* as seller, "" when it comes from an ask level and the seller of the
\* market trade when it comes from one; a fill that match_sell_order appends
\* names SUBMISSION as seller and, as buyer, "" or the buyer of the market
\* trade; and so do all fills that are in the log
FillsNameSubmissionAndOtherSide ==
    [][/\ Len(trades') = Len(trades) + 1 =>
            LET t == trades'[Len(trades')]
            IN  /\ order.quantity # 0
                /\ order.quantity > 0 =>
                     /\ pc \in {"buy_book", "buy_trades"}
                     /\ t.buyer = SUBMISSION
                     /\ t.seller = (IF pc = "buy_book" THEN ""
                                    ELSE OriginalTrades(timestamp, Product)[market_trade_i].seller)
                /\ order.quantity < 0 =>
                     /\ pc \in {"sell_book", "sell_trades"}
                     /\ t.seller = SUBMISSION
                     /\ t.buyer = (IF pc = "sell_book" THEN ""
                                   ELSE OriginalTrades(timestamp, Product)[market_trade_i].buyer)
       /\ Len(AllOrigins) = Len(AllFills)
       /\ \A i \in 1..Len(AllFills) :
            /\ AllOrigins[i].kind = "book" =>
                 \/ AllFills[i].buyer = SUBMISSION /\ AllFills[i].seller = ""
                 \/ AllFills[i].seller = SUBMISSION /\ AllFills[i].buyer = ""
            /\ AllOrigins[i].kind = "trade" =>
                 \/ /\ AllFills[i].buyer = SUBMISSION
                    /\ AllFills[i].seller = MatchedTrade(AllOrigins[i]).seller
                 \/ /\ AllFills[i].seller = SUBMISSION
                    /\ AllFills[i].buyer = MatchedTrade(AllOrigins[i]).buyer
      ]_vars

\* a sell order has returned with a fill from a bid level, which names no
\* buyer, and a fill against Bob's trade, which names Bob
SoldToBookAndToBob ==
    /\ pc = "return"
    /\ \E i, j \in 1..Len(trades) :
          /\ h_trades[i].kind = "book"
          /\ trades[i].seller = SUBMISSION /\ trades[i].buyer = ""
          /\ h_trades[j].kind = "trade"
          /\ trades[j].seller = SUBMISSION /\ trades[j].buyer = "Bob"

(***************************************************************************)
(* C31: the day's data after a run                                         *)
(***************************************************************************)
\* the quantities of the trades data.trades holds for a timestamp and a
\* product
DataTradeQuantities(ts, product) ==
    LET entries == Get(data_trades, ts, <<>>)
        e == EntryOf(entries, product)
    IN  IF e = 0 THEN <<>>
        ELSE [k \in 1..Len(entries[e].trades) |-> entries[e].trades[k].quantity]

\* C31: when run_backtest has returned, data.profit_loss is 0 for every
\* product and data.trades holds the trades with the quantities of the
\* file, as create_backtest_data built them
DataLeftAsFound ==
    pc = "done" =>
        /\ profit_loss = [p \in Products |-> 0]
        /\ data_trades = TradesByTimestamp(FileTrades)

\* the run has returned after a buy of 20 STARFRUIT at the first tick: the
\* data's STARFRUIT P&L is -225 and the two STARFRUIT trades of the first
\* tick are left with quantities 0 and 3 of 3 and 10
DataChangedByRun ==
    /\ pc = "done"
    /\ ~disable_trades_matching
    /\ profit_loss["STARFRUIT"] = -225
    /\ DataTradeQuantities(0, "STARFRUIT") = <<0, 3>>
    /\ [k \in 1..2 |-> OriginalTrades(0, "STARFRUIT")[k].quantity] = <<3, 10>>

(***************************************************************************)
(* C32: the four settings of the two merge options                         *)
(***************************************************************************)
\* m is a followed by b's rows at b's own timestamps, the activity rows with
\* b's profit and loss plus what a's last tick has for the product
AppendedWithProfitLossOnly(a, b, m) ==
    /\ Len(m.sandbox_logs) = Len(a.sandbox_logs) + Len(b.sandbox_logs)
    /\ Len(m.trades) = Len(a.trades) + Len(b.trades)
    /\ Len(m.activity_logs) = Len(a.activity_logs) + Len(b.activity_logs)
    /\ \A i \in 1..Len(b.sandbox_logs) :
         m.sandbox_logs[Len(a.sandbox_logs) + i].timestamp = b.sandbox_logs[i].timestamp
    /\ \A i \in 1..Len(b.trades) :
         m.trades[Len(a.trades) + i].timestamp = b.trades[i].timestamp
    /\ \A i \in 1..Len(b.activity_logs) :
         LET row == m.activity_logs[Len(a.activity_logs) + i]
         IN  /\ row.timestamp = b.activity_logs[i].timestamp
             /\ row.profit_loss2 = b.activity_logs[i].profit_loss2 +
                                   LastTickProfitLoss(a, b.activity_logs[i].product)

\* C32: a call of __main__.py's merge_results with an a that has an
\* activity row returns a result, whatever merge_profit_loss and
\* merge_timestamps are, and with merge_profit_loss and without
\* merge_timestamps the result has b's rows at their own timestamps with the
\* P&L of a's last tick added
MergeReturnsForAllSettings ==
    [][(program = "__main__" /\ pc = "reduce") =>
          /\ pc' \notin {"IndexError", "UnboundLocalError"}
          /\ (merge_profit_loss /\ ~merge_timestamps) =>
               /\ merged_results' # merged_results =>
                    AppendedWithProfitLossOnly(merged_results.result,
                                               results[merged_results.n + 1],
                                               merged_results'.result)
               /\ grouped_results' # grouped_results =>
                    AppendedWithProfitLossOnly(results[NumDays - grouped_results.n],
                                               grouped_results.result,
                                               grouped_results'.result)
      ]_vars

\* the first call of reduce, with the two-tick day as a, P&L continuity and
\* the days' own timestamps, has raised and nothing was merged
FirstMergeRaised ==
    /\ pc = "UnboundLocalError"
    /\ program = "__main__"
    /\ merge_profit_loss /\ ~merge_timestamps
    /\ results[1] = FirstDay
    /\ Len(results[1].activity_logs) = 4
    /\ merged_results = Merged(1, FirstDay)
    /\ grouped_results.n = 1


(***************************************************************************)
(* C33: every fill of a tick is logged in the result's trades once, with   *)
(* the timestamp of the tick it was made in, and a tick without fills adds *)
(* no fill to the log.                                                     *)
(***************************************************************************)
\* the trades of a log that the submission is a side of
FillsOf(log) ==
    SelectSeq(log, LAMBDA t : t.buyer = SUBMISSION \/ t.seller = SUBMISSION)

\* what a step adds to the result's trades
AddedTrades == SubSeq(result_trades', Len(result_trades) + 1, Len(result_trades'))

FillsLoggedOnceAtTheirTick ==
    [][/\ Len(result_trades') > Len(result_trades) =>
             \A i \in 1..Len(FillsOf(AddedTrades)) :
                 FillsOf(AddedTrades)[i].timestamp = timestamp'
       /\ pc' = "done" =>
             \A p \in Products :
                 FillPosition(result_trades', p) = Get(position', p, 0)]_vars

\* the buy of the first tick stands in the log of the second and of the third
FillLoggedAgain ==
    /\ program = "main"
    /\ pc = "done"
    /\ Get(position, "STARFRUIT", 0) = 8
    /\ Len(SelectSeq(result_trades,
                     LAMBDA t : t.buyer = SUBMISSION /\ t.timestamp = 0)) > 2


(***************************************************************************)
(* C34: the prices of the fills and the limit of the order                 *)
(***************************************************************************)
\* the order, as the strategy returned it, that the fill at place i of the
\* log of the tick at hand came from
OrderOfFill(i) == requested[AllOrigins[i].product][AllOrigins[i].order_i]

\* the places in the log of the fills of the tick at hand
FillsOfTick ==
    {i \in 1..Len(AllFills) : AllFills[i].timestamp = timestamp /\ IsFill(AllFills[i])}

\* C34: a fill of a buy order is priced at or under the order's price and a
\* fill of a sell order at or over it, whether it comes from the book or
\* from a market trade
FillsWithinLimitPrice ==
    pc \notin {"loop", "run", "done"} =>
    /\ Len(AllOrigins) = Len(AllFills)
    /\ \A i \in FillsOfTick :
         /\ AllOrigins[i].kind \in {"book", "trade"}
         /\ AllOrigins[i].product \in DOMAIN requested
         /\ AllOrigins[i].order_i \in 1..Len(requested[AllOrigins[i].product])
         /\ AllFills[i].symbol = OrderOfFill(i).symbol
         /\ (AllFills[i].buyer = SUBMISSION) = (OrderOfFill(i).quantity > 0)
         /\ (AllFills[i].seller = SUBMISSION) = (OrderOfFill(i).quantity < 0)
         /\ OrderOfFill(i).quantity > 0 => AllFills[i].price <= OrderOfFill(i).price
         /\ OrderOfFill(i).quantity < 0 => AllFills[i].price >= OrderOfFill(i).price

\* buys and sells of a run filled in both phases, one fill under the price
\* of its buy and one over the price of its sell
BothSidesFilledInBothPhases ==
    /\ pc = "done"
    /\ \A kind \in {"book", "trade"} : \A buys \in BOOLEAN :
            \E i \in 1..Len(result_trades) :
               /\ h_result_trades[i].kind = kind
               /\ (result_trades[i].buyer = SUBMISSION) = buys
               /\ (result_trades[i].seller = SUBMISSION) = ~buys
    /\ \E i \in 1..Len(result_trades) :
         result_trades[i].buyer = SUBMISSION /\ result_trades[i].price < 12
    /\ \E i \in 1..Len(result_trades) :
         result_trades[i].seller = SUBMISSION /\ result_trades[i].price > 7


(***************************************************************************)
(* C35: what an order is filled with and what is left of it                *)
(***************************************************************************)
\* the volume of the fills of the tick at hand that came from the order at
\* place k of the list under a key
FilledOf(key, k) ==
    SumSeq([i \in 1..Len(AllFills) |->
              IF /\ AllFills[i].timestamp = timestamp
                 /\ IsFill(AllFills[i])
                 /\ AllOrigins[i].product = key
                 /\ AllOrigins[i].order_i = k
              THEN AllFills[i].quantity ELSE 0])

\* the fills of both phases stay within what the orders asked for, and an
\* order that is still listed holds what its fills have left of it
FilledWithinRequest ==
    /\ Len(AllOrigins) = Len(AllFills)
    /\ \A key \in DOMAIN requested : \A k \in 1..Len(requested[key]) :
         /\ FilledOf(key, k) <= Abs(requested[key][k].quantity)
         /\ key \in DOMAIN orders =>
              orders[key][k].quantity =
                  IF requested[key][k].quantity > 0
                  THEN requested[key][k].quantity - FilledOf(key, k)
                  ELSE requested[key][k].quantity + FilledOf(key, k)

\* a is at least as near to zero as b and not on the other side of it
TowardZero(a, b) == (b >= 0 /\ a >= 0 /\ a <= b) \/ (b <= 0 /\ a <= 0 /\ a >= b)

\* C35: from the strategy's return to the end of the tick the fills of an
\* order, over both phases, add up to at most the quantity it was returned
\* with, and with every step the quantity of an order is where it was or
\* nearer to zero, on the same side of it
OrdersFilledWithinRequest ==
    [][requested' = requested =>
         /\ FilledWithinRequest'
         /\ \A key \in DOMAIN orders \cap DOMAIN orders' :
              \A k \in 1..Len(orders[key]) :
                 TowardZero(orders'[key][k].quantity, orders[key][k].quantity)
         /\ (InMatchOrder /\ InMatchOrder') =>
              /\ TowardZero(order'.quantity, order.quantity)
              /\ order'.quantity = orders'[Product][order_i].quantity]_vars

\* a sell of 20 is through both phases with something left, and a buy of 20
\* was filled whole
SellOrderPartlyFilled ==
    /\ pc = "return"
    /\ requested[Product][order_i].quantity = -20
    /\ order.quantity \in -19..-1
    /\ \E a, b \in 1..Len(trades) : h_trades[a].kind = "book" /\ h_trades[b].kind = "trade"
    /\ \E i \in 1..Len(result_trades) :
         result_trades[i].buyer = SUBMISSION /\ result_trades[i].quantity = 20


(***************************************************************************)
(* C36: the levels of the book over a tick                                 *)
(***************************************************************************)
\* the volume that the fills of the tick at hand took at a price from the
\* asks (buys) or the bids of a symbol's book
TakenAtLevel(symbol, price, buys) ==
    SumSeq([i \in 1..Len(AllFills) |->
              IF /\ AllFills[i].timestamp = timestamp
                 /\ AllOrigins[i].kind = "book"
                 /\ AllFills[i].symbol = symbol
                 /\ AllFills[i].price = price
                 /\ (AllFills[i].buyer = SUBMISSION) = buys
              THEN AllFills[i].quantity ELSE 0])

\* C36: while a tick is worked on, the fills of all its orders at a level of
\* the book add up to at most the volume the level has in the tick's price
\* row; what is left of an ask level is negative and of a bid level positive,
\* as in the row, never zero and never of the other sign; and the levels
\* that are gone from the book are the ones whose volume was taken whole
LevelsWithinSnapshot ==
    pc \notin {"loop", "done"} =>
        \A p \in Products :
            /\ DOMAIN order_depths[p].sell_orders \subseteq DOMAIN SnapshotBook(p).sell_orders
            /\ DOMAIN order_depths[p].buy_orders \subseteq DOMAIN SnapshotBook(p).buy_orders
            /\ \A x \in DOMAIN SnapshotBook(p).sell_orders :
                 /\ TakenAtLevel(p, x, TRUE) <= -SnapshotBook(p).sell_orders[x]
                 /\ x \in DOMAIN order_depths[p].sell_orders => order_depths[p].sell_orders[x] < 0
                 /\ x \notin DOMAIN order_depths[p].sell_orders <=>
                        TakenAtLevel(p, x, TRUE) = -SnapshotBook(p).sell_orders[x]
            /\ \A x \in DOMAIN SnapshotBook(p).buy_orders :
                 /\ TakenAtLevel(p, x, FALSE) <= SnapshotBook(p).buy_orders[x]
                 /\ x \in DOMAIN order_depths[p].buy_orders => order_depths[p].buy_orders[x] > 0
                 /\ x \notin DOMAIN order_depths[p].buy_orders <=>
                        TakenAtLevel(p, x, FALSE) = SnapshotBook(p).buy_orders[x]

\* two orders of the first tick took the five of the ask level at 11 between
\* them, and in a later tick a sell has taken a part of a bid level, which
\* is in the book with the rest
LevelTakenWholeByTwoOrders ==
    /\ pc = "return"
    /\ \E i, j \in 1..Len(result_trades) :
         /\ h_result_trades[i].timestamp = 0 /\ h_result_trades[j].timestamp = 0
         /\ h_result_trades[i].kind = "book" /\ h_result_trades[j].kind = "book"
         /\ h_result_trades[i].order_i # h_result_trades[j].order_i
         /\ result_trades[i].price = 11 /\ result_trades[j].price = 11
         /\ result_trades[i].quantity + result_trades[j].quantity = 5
    /\ \E y \in DOMAIN order_depths[Product].buy_orders :
         /\ TakenAtLevel(Product, y, FALSE) > 0
         /\ order_depths[Product].buy_orders[y] =
                SnapshotBook(Product).buy_orders[y] - TakenAtLevel(Product, y, FALSE)


(***************************************************************************)
(* C37: orders for a symbol that the day has no price rows for             *)
(***************************************************************************)
\* a returned dict without the orders whose symbol has no price rows
WithRows(ret) ==
    [key \in DOMAIN ret |-> SelectSeq(ret[key], LAMBDA o : o.symbol \in Products)]

\* C37: an order whose symbol has no price rows in the day's data has no
\* part in enforce_limits (the lines are those of the other orders alone),
\* is never given to match_order, leaves no trade and no position or P&L
\* behind, and the run goes on to the next step
OrdersWithoutRowsIgnored ==
    [][/\ pc = "enforce_limits" =>
            EnforceFrom(1, position, orders, <<>>).lines =
                EnforceFrom(1, position, WithRows(orders), <<>>).lines
       /\ (pc = "order" /\ order_i <= Len(Get(orders, Product, <<>>))) =>
            /\ orders[Product][order_i].symbol \in Products
            /\ pc' # "KeyError"
       /\ \A i \in 1..Len(AllFills') : IsFill(AllFills'[i]) => AllFills'[i].symbol \in Products
       /\ DOMAIN position' \subseteq Products
       /\ DOMAIN profit_loss' \subseteq Products]_vars

\* the order for PEARLS that the strategy listed under STARFRUIT at the
\* second tick passed enforce_limits, went to match_order and ended the run
\* there
RunEndedAtPearlsOrder ==
    /\ pc = "KeyError"
    /\ tick = 1
    /\ "PEARLS" \notin Products
    /\ requested = OneKey("STARFRUIT", <<Order("PEARLS", 12, 8)>>)
    /\ orders = requested
    /\ order = Order("PEARLS", 12, 8)
    /\ sandbox_logs[Len(sandbox_logs)].sandbox_log = <<>>
    /\ result_trades # <<>>


(***************************************************************************)
(* C38: a run with the matching against market trades disabled             *)
(***************************************************************************)
\* the trades of the file with a timestamp as match_orders emits them: by
\* symbol in the order the symbols come up in the file, within a symbol in
\* the file's order
EmittedInFull(ts) ==
    LET entries == Get(TradesByTimestamp(FileTrades), ts, <<>>)
    IN  Concat([e \in 1..Len(entries) |-> entries[e].trades])

\* the entries that the log has of a timestamp that are no fills
MarketRows(ts) ==
    SelectSeq(result_trades, LAMBDA t : t.timestamp = ts /\ ~IsFill(t))

\* C38: with disable_trades_matching set, every fill comes from a level of
\* the book, at that level's price and with no name on the other side, no
\* step of the second loops adds a fill or takes from a market trade, and
\* for every tick that is through the log holds all the trades of the file
\* with the tick's timestamp, each with the quantity it has in the file
BookOnlyWhenTradesMatchingDisabled ==
    [][disable_trades_matching =>
         /\ trades' # trades =>
              \/ trades' = <<>>
              \/ /\ pc \in {"buy_book", "sell_book"}
                 /\ Len(trades') = Len(trades) + 1
                 /\ trades'[Len(trades')].price \in
                        DOMAIN SnapshotBook(order.symbol).sell_orders \cup
                        DOMAIN SnapshotBook(order.symbol).buy_orders
                 /\ {trades'[Len(trades')].buyer, trades'[Len(trades')].seller}
                        = {SUBMISSION, ""}
         /\ \A i \in 1..Len(AllFills') :
              IsFill(AllFills'[i]) => AllOrigins'[i].kind = "book"
         /\ \A e \in 1..Len(market_trades') : \A k \in 1..Len(market_trades'[e].trades) :
              /\ market_trades'[e].trades[k].buy_quantity =
                     market_trades'[e].trades[k].trade.quantity
              /\ market_trades'[e].trades[k].sell_quantity =
                     market_trades'[e].trades[k].trade.quantity
         /\ pc' \in {"loop", "done"} =>
              \A n \in 1..tick' :
                 MarketRows(SortedTimestamps[n])' = EmittedInFull(SortedTimestamps[n])]_vars

\* a run without trade matching is over: a buy of 20 at 12 got the ten of
\* the book and nothing of the ten that traded at 12, and the log has the
\* five trades of the two kinds of tick whole, the ORCHIDS trade among them
BookFillsAndAllTradesLogged ==
    /\ pc = "done"
    /\ disable_trades_matching
    /\ \E i, j \in 1..Len(result_trades) :
         /\ i # j
         /\ result_trades[i].timestamp = 0 /\ result_trades[j].timestamp = 0
         /\ result_trades[i].buyer = SUBMISSION /\ result_trades[j].buyer = SUBMISSION
         /\ result_trades[i].symbol = "STARFRUIT" /\ result_trades[j].symbol = "STARFRUIT"
         /\ result_trades[i].quantity + result_trades[j].quantity = 10
         /\ FillPosition(LoggedTrades(0, "STARFRUIT", TRUE), "STARFRUIT") = 10
    /\ MarketRows(0) = <<Trade("STARFRUIT", 9, 3, "Bob", "Al", 0),
                         Trade("STARFRUIT", 12, 10, "", "", 0),
                         Trade("AMETHYSTS", 9, 4, "", "", 0)>>
    /\ \E t \in Range(result_trades) : t.symbol = "ORCHIDS" /\ t.quantity = 2

=============================================================================
